---------------------------- MODULE Spec2Model ----------------------------
(***************************************************************************)
(* PitchCraftAI: the DCF valuation engine and the formula workbook         *)
(* builder.                                                                *)
(*                                                                         *)
(*   - generate_dcf (web/api.py) computes the valuation numerically;       *)
(*   - ProfessionalDCFModel (models/dcf_professional.py) writes the same   *)
(*     valuation as a workbook of cross-referencing formulas;              *)
(*   - QuestionGenerator (core/question_generator.py) resolves the         *)
(*     assumption record; SECFetcher (data/sec_fetcher.py) provides the    *)
(*     financial snapshot; main.py is the command line front end.          *)
(*                                                                         *)
(* Numbers are exact rationals <<numerator, denominator>>.  The input      *)
(* sets are chosen so that every value the code computes on them is        *)
(* rational (a half-year discount exponent is only combined with a         *)
(* 1 + WACC that is a perfect square).  Fonts, fills, number formats and   *)
(* column widths do not take part in any value and are not modelled.       *)
(***************************************************************************)
EXTENDS Integers, Sequences, FiniteSets, TLC

VARIABLES
    model,      \* the ProfessionalDCFModel instance: a, sheets, active, cells,
                \* cell_refs
    order,      \* the build_* calls the caller makes, in sequence
    pc,         \* the caller's position: a step of `order`, then the tail of
                \* generate() and of the handler that called it
    saved,      \* the files written by wb.save, each as its list of tabs
    out,        \* the numeric result of generate_dcf, or NoResult
    cache,      \* _company_cache of the web API: ticker -> snapshot
    request,    \* the call being served: its kind, inputs and what the
                \* provider answered
    result,     \* what the last call returned to its caller
    builds      \* the ProfessionalDCFModel instances of builds that run
                \* side by side, each with its caller's position

vars == <<model, order, pc, saved, out, cache, request, result, builds>>

-----------------------------------------------------------------------------
(* Exact rational arithmetic *)

GCDf[p \in Nat \X Nat] ==
    IF p[2] = 0 THEN p[1] ELSE GCDf[<<p[2], p[1] % p[2]>>]
GCD(x, y) == GCDf[<<x, y>>]

Abs(x) == IF x < 0 THEN -x ELSE x

QNorm(n, d) ==
    LET g == GCD(Abs(n), Abs(d))
        s == IF d < 0 THEN -1 ELSE 1
    IN  <<(s * n) \div g, (s * d) \div g>>

Q(n, d) == QNorm(n, d)
QInt(n) == <<n, 1>>
Zero == <<0, 1>>
One == <<1, 1>>

QAdd(x, y) ==
    LET g == GCD(x[2], y[2])
        l == (x[2] \div g) * y[2]
    IN  QNorm(x[1] * (l \div x[2]) + y[1] * (l \div y[2]), l)
QNeg(x) == <<-x[1], x[2]>>
QSub(x, y) == QAdd(x, QNeg(y))
QMul(x, y) ==
    LET g1 == GCD(Abs(x[1]), y[2])
        g2 == GCD(Abs(y[1]), x[2])
        h1 == IF g1 = 0 THEN 1 ELSE g1
        h2 == IF g2 = 0 THEN 1 ELSE g2
    IN  QNorm((x[1] \div h1) * (y[1] \div h2), (x[2] \div h2) * (y[2] \div h1))
QInv(x) == QNorm(x[2], x[1])
QDiv(x, y) == QMul(x, QInv(y))
QLt(x, y) == x[1] * y[2] < y[1] * x[2]
QLe(x, y) == x[1] * y[2] <= y[1] * x[2]
QGt(x, y) == QLt(y, x)
QGe(x, y) == QLe(y, x)
QIsZero(x) == x[1] = 0

RECURSIVE QPowInt(_, _)
QPowInt(x, k) == IF k = 0 THEN One ELSE QMul(x, QPowInt(x, k - 1))

ISqrt(n) == CHOOSE r \in 0..n : r * r = n
QSqrt(x) == <<ISqrt(x[1]), ISqrt(x[2])>>
IsSquare(n) == \E r \in 0..n : r * r = n
QIsSquare(x) == x[1] >= 0 /\ IsSquare(x[1]) /\ IsSquare(x[2])

\* x ** (h/2): the exponent in half units (5 -> h = 10, 4.5 -> h = 9)
QPowHalf(x, h) ==
    IF h % 2 = 0 THEN QPowInt(x, h \div 2) ELSE QPowInt(QSqrt(x), h)

RECURSIVE QSum(_)
QSum(s) == IF s = <<>> THEN Zero ELSE QAdd(Head(s), QSum(Tail(s)))


-----------------------------------------------------------------------------
(* DCFAssumptions records the valuation runs on *)

\* the fields every record of the input set shares
BaseAssumptions ==
    [ company_name |-> "Test Corp", ticker |-> "TEST",
      base_revenue |-> QInt(100),
      revenue_growth_y1 |-> Q(1, 2), revenue_growth_y2 |-> Zero,
      revenue_growth_y3 |-> QInt(1), revenue_growth_y4 |-> Zero,
      revenue_growth_y5 |-> Q(-1, 2),
      ebitda_margin |-> Q(1, 4), ebitda_margin_y5 |-> Q(1, 2),
      da_pct_revenue |-> Q(1, 8), capex_pct_revenue |-> Q(1, 16),
      days_sales_outstanding |-> QInt(146),
      days_inventory_outstanding |-> QInt(73),
      days_payables_outstanding |-> QInt(146),
      tax_rate |-> Q(1, 2),
      risk_free_rate |-> Q(5, 32), equity_risk_premium |-> Q(1, 64),
      unlevered_beta |-> QInt(2), size_premium |-> Q(1, 128),
      company_specific_risk |-> Q(1, 128),
      pre_tax_cost_of_debt |-> Q(1, 16), target_debt_to_equity |-> QInt(1),
      terminal_growth |-> Q(1, 32), exit_ebitda_multiple |-> QInt(8),
      total_debt |-> QInt(30), cash |-> QInt(10),
      minority_interest |-> QInt(5),
      shares_outstanding |-> QInt(10), options_dilution |-> Q(1, 4),
      use_mid_year_convention |-> FALSE ]

\* The WACC inputs are binary fractions, so that the handler's float
\* arithmetic on them is exact and WACC = terminal_growth is an equality of
\* floats too.  With BaseAssumptions' other inputs WACC = risk_free_rate / 2
\* + 3/64: 12.5% (inside the 5%-15% band), 300% (1 + WACC = 4), 0% and -100%
\* (1 + WACC = 0).
RiskFreeRates == { Q(5, 32), Q(189, 32), Q(-3, 32), Q(-67, 32) }
TerminalGrowths == { Zero, Q(1, 32), Q(1, 16), Q(1, 8), QInt(3), QInt(4) }
\* <<base_revenue, shares_outstanding, options_dilution, ebitda_margin,
\*   ebitda_margin_y5>>: the scenario, then negative and zero base revenue, no
\* shares, a dilution of -100% (zero diluted shares), and a margin below D&A
\* (negative EBIT)
Profiles ==
    { <<QInt(100), QInt(10), Q(1, 4), Q(1, 4), Q(1, 2)>>,
      <<QInt(-100), QInt(10), Q(1, 4), Q(1, 4), Q(1, 2)>>,
      <<Zero, QInt(10), Q(1, 4), Q(1, 4), Q(1, 2)>>,
      <<QInt(100), Zero, Q(1, 4), Q(1, 4), Q(1, 2)>>,
      <<QInt(100), QInt(10), QInt(-1), Q(1, 4), Q(1, 2)>>,
      <<QInt(100), QInt(10), Q(1, 4), Q(1, 16), Q(1, 16)>> }

MkAssumptions(p, rf, g, my) ==
    [ BaseAssumptions EXCEPT
        !.base_revenue = p[1], !.shares_outstanding = p[2],
        !.options_dilution = p[3], !.ebitda_margin = p[4],
        !.ebitda_margin_y5 = p[5], !.risk_free_rate = rf,
        !.terminal_growth = g, !.use_mid_year_convention = my ]

-----------------------------------------------------------------------------
(* generate_dcf (web/api.py): the numeric projection, lines 191-309.  The   *)
(* operators below are the statements of the handler; generate_dcf_outputs  *)
(* runs them in the handler's order, each local computed once.              *)

growth_rates(x) ==
    << x.revenue_growth_y1, x.revenue_growth_y2, x.revenue_growth_y3,
       x.revenue_growth_y4, x.revenue_growth_y5 >>

levered_beta(x) ==
    QMul(x.unlevered_beta,
         QAdd(One, QMul(QSub(One, x.tax_rate), x.target_debt_to_equity)))

cost_of_equity(x, lb) ==
    QAdd(QAdd(QAdd(x.risk_free_rate, QMul(lb, x.equity_risk_premium)),
              x.size_premium),
         x.company_specific_risk)

after_tax_cost_of_debt(x) ==
    QMul(x.pre_tax_cost_of_debt, QSub(One, x.tax_rate))

\* line 199; raises when target_debt_to_equity = -1
debt_weight(x) ==
    QDiv(x.target_debt_to_equity, QAdd(One, x.target_debt_to_equity))

wacc_of(equity_weight, coe, dw, atcd) ==
    QAdd(QMul(equity_weight, coe), QMul(dw, atcd))

\* lines 193-201 in one
wacc(x) ==
    wacc_of(QSub(One, debt_weight(x)), cost_of_equity(x, levered_beta(x)),
            debt_weight(x), after_tax_cost_of_debt(x))

RECURSIVE revenues_upto(_, _)
revenues_upto(x, i) ==
    IF i = 0 THEN <<x.base_revenue>>
    ELSE LET prev == revenues_upto(x, i - 1)
         IN  Append(prev, QMul(prev[i], QAdd(One, growth_rates(x)[i])))

\* revenues[i] of the code is revenues(x)[i + 1]
revenues(x) == revenues_upto(x, 5)

margin_delta(x) == QDiv(QSub(x.ebitda_margin_y5, x.ebitda_margin), QInt(5))

margins(x) ==
    [i \in 1..6 |-> QAdd(x.ebitda_margin, QMul(margin_delta(x), QInt(i - 1)))]

ccc(x) ==
    QSub(QAdd(x.days_sales_outstanding, x.days_inventory_outstanding),
         x.days_payables_outstanding)

nwc_pct(x) == QDiv(ccc(x), QInt(365))

nopat_of(ebit, tax_rate) == QMul(ebit, QSub(One, tax_rate))

\* one pass of the loop at lines 229-242, i the 0-based year
fcf_year(x, revs, ebs, nwcp, i) ==
    LET rev == revs[i + 1]
        ebitda == ebs[i + 1]
        da == QMul(rev, x.da_pct_revenue)
        ebit == QSub(ebitda, da)
        nopat == nopat_of(ebit, x.tax_rate)
        capex == QMul(rev, x.capex_pct_revenue)
        nwc_change ==
            IF i = 0 THEN Zero
            ELSE QMul(QSub(revs[i + 1], revs[i]), nwcp)
    IN  [ da |-> da, ebit |-> ebit, nopat |-> nopat, capex |-> capex,
          nwc_change |-> nwc_change,
          fcf |-> QSub(QSub(QAdd(nopat, da), capex), nwc_change) ]

\* twice the discount period of forecast year i (line 247)
discount_period2(mid_year, i) == IF mid_year THEN 2 * i - 1 ELSE 2 * i

\* line 248; raises when 1 + wacc = 0
df(w, period2) == QInv(QPowHalf(QAdd(One, w), period2))

\* a terminal value that divides by wacc + terminal_growth
tv_gordon_sum(fcf5, g, w) == QDiv(QMul(fcf5, QAdd(One, g)), QAdd(w, g))

\* line 254; raises when wacc = terminal_growth
tv_gordon_of(fcf5, g, w) == QDiv(QMul(fcf5, QAdd(One, g)), QSub(w, g))

\* lines 257-258
pv_tv_of(tv, w) == QDiv(tv, QPowInt(QAdd(One, w), 5))

\* lines 265-266
equity_of(ev, nd, minority_interest) == QSub(QSub(ev, nd), minority_interest)

diluted_shares(x) == QMul(x.shares_outstanding, QAdd(One, x.options_dilution))

\* lines 271-272
price_of(equity, diluted) ==
    IF QGt(diluted, Zero) THEN QDiv(equity, diluted) ELSE Zero

\* lines 275-276
implied_multiple(ev, base) == IF QGt(base, Zero) THEN QDiv(ev, base) ELSE Zero

validations(x, w, implied_ev_ebitda) ==
    << [ name |-> "WACC > Terminal Growth",
         status |-> IF QGt(w, x.terminal_growth) THEN "pass" ELSE "fail" ],
       [ name |-> "WACC Range",
         status |-> IF QLe(Q(5, 100), w) /\ QLe(w, Q(15, 100))
                    THEN "pass" ELSE "warn" ],
       [ name |-> "Terminal Growth <= 4%",
         status |-> IF QLe(x.terminal_growth, Q(4, 100)) THEN "pass" ELSE "warn" ],
       [ name |-> "Positive Base Revenue",
         status |-> IF QGt(x.base_revenue, Zero) THEN "pass" ELSE "fail" ],
       [ name |-> "Shares Outstanding > 0",
         status |-> IF QGt(x.shares_outstanding, Zero) THEN "pass" ELSE "fail" ],
       [ name |-> "Implied EV/EBITDA Sanity",
         status |-> IF QLe(QInt(5), implied_ev_ebitda)
                       /\ QLe(implied_ev_ebitda, QInt(25))
                    THEN "pass" ELSE "warn" ] >>

\* The float divisions of lines 199, 248 and 254 raise ZeroDivisionError on a
\* zero divisor; the first statement that raises ends the handler (0: none).
raises_at(x) ==
    IF QIsZero(QAdd(One, x.target_debt_to_equity)) THEN 199
    ELSE IF QIsZero(QAdd(One, wacc(x))) THEN 248
    ELSE IF QIsZero(QSub(wacc(x), x.terminal_growth)) THEN 254
    ELSE 0

NoResult == [ status |-> "none" ]

\* no call is being served
NoRequest == [ seq |-> 0, kind |-> "none" ]

\* what the handler leaves after line 191: the response payload (lines
\* 313-386), or the exception that ended it
generate_dcf_outputs(x) ==
    IF raises_at(x) # 0
    THEN [ status |-> "ZeroDivisionError", line |-> raises_at(x) ]
    ELSE
    LET lb == levered_beta(x)
        w == wacc(x)
        revs == revenues(x)
        mgs == margins(x)
        ebs == [i \in 1..6 |-> QMul(revs[i], mgs[i])]
        nwcp == nwc_pct(x)
        yrs == [i \in 1..6 |-> fcf_year(x, revs, ebs, nwcp, i - 1)]
        fcfs == [i \in 1..6 |-> yrs[i].fcf]
        pv_fcfs ==
            [i \in 1..5 |->
                QMul(fcfs[i + 1],
                     df(w, discount_period2(x.use_mid_year_convention, i)))]
        sum_pv_fcf == QSum(pv_fcfs)
        tv_gordon == tv_gordon_of(fcfs[6], x.terminal_growth, w)
        tv_exit == QMul(ebs[6], x.exit_ebitda_multiple)
        pv_tv_gordon == pv_tv_of(tv_gordon, w)
        pv_tv_exit == pv_tv_of(tv_exit, w)
        ev_gordon == QAdd(sum_pv_fcf, pv_tv_gordon)
        ev_exit == QAdd(sum_pv_fcf, pv_tv_exit)
        nd == QSub(x.total_debt, x.cash)
        equity_gordon == equity_of(ev_gordon, nd, x.minority_interest)
        equity_exit == equity_of(ev_exit, nd, x.minority_interest)
        dil == diluted_shares(x)
        implied == implied_multiple(ev_gordon, ebs[6])
    IN  [ status |-> "ok",
          levered_beta |-> lb,
          debt_weight |-> debt_weight(x),
          wacc |-> w,
          nwc_pct |-> nwcp,
          revenue |-> revs, margin |-> mgs, ebitda |-> ebs,
          ebit |-> [i \in 1..6 |-> yrs[i].ebit],
          nopat |-> [i \in 1..6 |-> yrs[i].nopat],
          fcf |-> fcfs,
          pv_fcf |-> pv_fcfs,
          tv_gordon |-> tv_gordon, tv_exit |-> tv_exit,
          pv_tv_gordon |-> pv_tv_gordon, pv_tv_exit |-> pv_tv_exit,
          ev_gordon |-> ev_gordon, ev_exit |-> ev_exit,
          net_debt |-> nd,
          equity_gordon |-> equity_gordon, equity_exit |-> equity_exit,
          diluted_shares |-> dil,
          price_gordon |-> price_of(equity_gordon, dil),
          price_exit |-> price_of(equity_exit, dil),
          validations |-> validations(x, w, implied) ]

\* the assumption records of the model: a half-year exponent only where
\* 1 + WACC is a perfect square, and 1 + WACC >= 0
Assumptions ==
    { r \in { MkAssumptions(p, rf, g, my) :
                p \in Profiles, rf \in RiskFreeRates,
                g \in TerminalGrowths, my \in BOOLEAN } :
        r.use_mid_year_convention => QIsSquare(QAdd(One, wacc(r))) }

-----------------------------------------------------------------------------
(* Workbook cells.  A cell is keyed <<sheet title, row, column>>.  A formula *)
(* string is kept as its expression tree; a reference carries the sheet     *)
(* prefix ("" for none) and the address text as <<column letters, row>>,    *)
(* NoAddr being the empty string.                                           *)

NoAddr == <<>>

NumC(q) == [ t |-> "num", v |-> q ]
TextC(str) == [ t |-> "text", s |-> str ]
Formula(e) == [ t |-> "formula", e |-> e ]

ERef(sheet, addr) == [ k |-> "ref", sheet |-> sheet, addr |-> addr ]
ENum(q) == [ k |-> "num", v |-> q ]
EStr(str) == [ k |-> "str", s |-> str ]
EBin(op, l, r) == [ k |-> "bin", op |-> op, l |-> l, r |-> r ]
ENeg(e) == [ k |-> "neg", e |-> e ]
EMax(l, r) == [ k |-> "max", l |-> l, r |-> r ]
ECmp(op, l, r) == [ k |-> "cmp", op |-> op, l |-> l, r |-> r ]
EAnd(l, r) == [ k |-> "and", l |-> l, r |-> r ]
EIf(c, th, el) == [ k |-> "if", c |-> c, th |-> th, el |-> el ]
ESum(from, to) == [ k |-> "sum", from |-> from, to |-> to ]

Letters == << "A", "B", "C", "D", "E", "F", "G", "H", "I", "J", "K", "L", "M", "N" >>

\* openpyxl.utils.get_column_letter
get_column_letter(col) == Letters[col]

\* the column a reference's letters name
column_index(letter) == CHOOSE c \in 1..Len(Letters) : Letters[c] = letter

\* f"{get_column_letter(col)}{row}"
Addr(col, row) == << get_column_letter(col), row >>

\* "B5" and the like, written out in the source
A1(letter, row) == << letter, row >>

Years == << "Base", "Year 1", "Year 2", "Year 3", "Year 4", "Year 5" >>

\* a constructor that takes total debt for net debt
NewModelGrossDebt(x) ==
    [ a |-> x,
      sheets |-> << "Sheet" >>,   \* Workbook() starts with one sheet
      active |-> 1,               \* position in `sheets` of the active sheet
      cells |-> << >>,
      cell_refs |-> << >>,
      nwc_pct_revenue |-> QDiv(ccc(x), QInt(365)),
      unlevered_beta |-> x.unlevered_beta,
      levered_beta |->
          QMul(x.unlevered_beta,
               QAdd(One, QMul(QSub(One, x.tax_rate), x.target_debt_to_equity))),
      cost_of_debt |-> x.pre_tax_cost_of_debt,
      debt_to_capital |->
          QDiv(x.target_debt_to_equity, QAdd(One, x.target_debt_to_equity)),
      size_premium |-> x.size_premium,
      company_specific_risk |-> x.company_specific_risk,
      net_debt |-> x.total_debt ]

\* ProfessionalDCFModel.__init__
NewModel(x) ==
    [ a |-> x,
      sheets |-> << "Sheet" >>,   \* Workbook() starts with one sheet
      active |-> 1,               \* position in `sheets` of the active sheet
      cells |-> << >>,
      cell_refs |-> << >>,
      nwc_pct_revenue |-> QDiv(ccc(x), QInt(365)),
      unlevered_beta |-> x.unlevered_beta,
      levered_beta |->
          QMul(x.unlevered_beta,
               QAdd(One, QMul(QSub(One, x.tax_rate), x.target_debt_to_equity))),
      cost_of_debt |-> x.pre_tax_cost_of_debt,
      debt_to_capital |->
          QDiv(x.target_debt_to_equity, QAdd(One, x.target_debt_to_equity)),
      size_premium |-> x.size_premium,
      company_specific_risk |-> x.company_specific_risk,
      net_debt |-> QSub(x.total_debt, x.cash) ]

\* self._ref(name)
Ref(b, name) == IF name \in DOMAIN b.cell_refs THEN b.cell_refs[name] ELSE NoAddr

\* a registration that leaves the registry as it was
RegisterDropsName(b, name, addr) ==
    b

\* self._cell_refs[name] = address
Register(b, name, addr) ==
    [ b EXCEPT !.cell_refs = (name :> addr) @@ b.cell_refs ]

\* self._cell_refs[name] = f"B{row}" for the names of `names`, one row each
\* from `row` on (the loops over _add_input_cell with a name)
RECURSIVE RegisterRows(_, _, _)
RegisterRows(b, names, row) ==
    IF names = << >> THEN b
    ELSE RegisterRows(Register(b, Head(names), Addr(2, row)), Tail(names), row + 1)

\* self.wb.create_sheet(title)
create_sheet(b, title) == [ b EXCEPT !.sheets = Append(@, title) ]

\* the writes of `ws` (a set of <<row, column, content>>) on sheet `title`
Write(b, title, ws) ==
    [ b EXCEPT !.cells =
        [ key \in { <<title, w[1], w[2]>> : w \in ws } |->
            (CHOOSE w \in ws : w[1] = key[2] /\ w[2] = key[3])[3] ] @@ @ ]

\* the "Base" ... "Year 5" header cells of a projection sheet
YearHeader(row) == { <<row, i + 2, TextC(Years[i + 1])>> : i \in 0..5 }

\* _add_title returns the row two below; _add_section_header the next one
AfterTitle(row) == row + 2
AfterSection(row) == row + 1

\* a placeholder tab: a title and a note
Placeholder(b, title, heading, note) ==
    Write(create_sheet(b, title), title,
          { <<1, 1, TextC(heading)>>, <<AfterTitle(1), 1, TextC(note)>> })

\* label in column 1 and input value in column 2, one row each from `row` on
InputRows(row, labels, values) ==
    UNION { { <<row + i - 1, 1, TextC(labels[i])>>,
              <<row + i - 1, 2, NumC(values[i])>> } : i \in 1..Len(labels) }

\* one formula per projection column 2..7 of `row`, f[col] its expression
ProjectionRow(row, label, f) ==
    { <<row, 1, TextC(label)>> } \cup { <<row, col, Formula(f[col])>> : col \in 2..7 }

build_cover_sheet(b) ==
    LET ws == "Cover"
        \* ws = self.wb.active; ws.title = "Cover".  No builder writes to the
        \* active sheet under another title, so there are no cells to carry.
        renamed == [ b EXCEPT !.sheets[b.active] = ws ]
        row == AfterTitle(1)
    IN  Write(renamed, ws,
              { <<1, 1, TextC("DCF Valuation Model")>>,
                <<row, 1, TextC("Prepared For: Investment Banking Associates")>>,
                <<row + 1, 1, TextC("Prepared By: PitchCraftAI")>>,
                <<row + 2, 1, TextC("As of: February 3, 2026")>> })

Purposes ==
    << <<"Cover", "Model cover">>, <<"Contents", "Table of contents">>,
       <<"Inputs_Index", "Key inputs and controls">>,
       <<"Key_Assumptions", "Core model assumptions">>,
       <<"Historical_IS", "Historical income statement">>,
       <<"Historical_BS", "Historical balance sheet">>,
       <<"Historical_CF", "Historical cash flow">>,
       <<"Revenue_Build", "Revenue forecast build">>,
       <<"COGS_Gross_Margin", "Gross margin / COGS build">>,
       <<"Opex", "Operating expenses">>, <<"EBITDA_Bridge", "EBITDA derivation">>,
       <<"D&A", "Depreciation & amortization">>, <<"Capex", "Capital expenditures">>,
       <<"Working_Capital", "Net working capital build">>,
       <<"Other_Operating", "Other operating items">>, <<"Taxes", "Tax schedule">>,
       <<"Unlevered_FCF", "Unlevered free cash flow">>,
       <<"Debt_Schedule", "Debt and amortization">>,
       <<"Interest_Expense", "Interest expense schedule">>,
       <<"Share_Count", "Basic/diluted shares">>, <<"WACC", "WACC build">>,
       <<"DCF_Valuation", "DCF valuation">>,
       <<"Terminal_Value", "Terminal value methods">>,
       <<"EV_Equity_Bridge", "EV to equity bridge">>,
       <<"Sensitivity", "Sensitivity tables">>, <<"Scenario_Manager", "Scenario controls">>,
       <<"KPI_Dashboard", "Key KPIs">>, <<"Trading_Comps", "Trading comps">>,
       <<"Transactions_Comps", "Transactions comps">>,
       <<"Charts_Checks", "Charts and error checks">> >>

build_contents_sheet(b) ==
    LET ws == "Contents"
        row == AfterTitle(1)
    IN  Write(create_sheet(b, ws), ws,
              { <<1, 1, TextC("Model Contents")>>,
                <<row, 1, TextC("Tab")>>, <<row, 2, TextC("Purpose")>> }
              \cup UNION { { <<row + i, 1, TextC(Purposes[i][1])>>,
                             <<row + i, 2, TextC(Purposes[i][2])>> } :
                           i \in 1..Len(Purposes) })

IndexInputs ==
    << <<"Base Revenue ($M)", "Key_Assumptions", "base_revenue">>,
       <<"EBITDA Margin", "Key_Assumptions", "ebitda_margin">>,
       <<"D&A (% Rev)", "Key_Assumptions", "da_pct">>,
       <<"Capex (% Rev)", "Key_Assumptions", "capex_pct">>,
       <<"NWC (% Rev)", "Key_Assumptions", "nwc_pct">>,
       <<"Tax Rate", "Key_Assumptions", "tax_rate">>,
       <<"WACC", "WACC", "wacc">>,
       <<"Terminal Growth", "Key_Assumptions", "term_growth">>,
       <<"Exit EV/EBITDA", "Key_Assumptions", "exit_mult">>,
       <<"Net Debt ($M)", "Key_Assumptions", "net_debt">>,
       <<"Shares (M)", "Key_Assumptions", "shares">> >>

\* the dash written where there is no value to show
Dash == TextC("-")

build_inputs_index_sheet(b) ==
    LET ws == "Inputs_Index"
        row == AfterTitle(1) + 1
    IN  Write(create_sheet(b, ws), ws,
              { <<1, 1, TextC("Inputs Index")>>,
                <<row - 1, 1, TextC("Input")>>, <<row - 1, 2, TextC("Value")>> }
              \cup UNION { { <<row + i - 1, 1, TextC(IndexInputs[i][1])>>,
                             <<row + i - 1, 2,
                               IF Ref(b, IndexInputs[i][3]) # NoAddr
                               THEN Formula(ERef(IndexInputs[i][2], Ref(b, IndexInputs[i][3])))
                               ELSE Dash>> } :
                           i \in 1..Len(IndexInputs) })

WaccNames ==
    << "rf_rate", "erp", "unlevered_beta", "beta", "size_prem", "co_risk",
       "cost_debt", "debt_cap" >>

WaccLabels ==
    << "Risk-Free Rate", "Equity Risk Premium", "Unlevered Beta", "Levered Beta",
       "Size Premium", "Company Risk Premium", "Pre-Tax Cost of Debt",
       "Debt / Total Capital" >>

WaccValues(b) ==
    << b.a.risk_free_rate, b.a.equity_risk_premium, b.unlevered_beta, b.levered_beta,
       b.size_premium, b.company_specific_risk, b.cost_of_debt, b.debt_to_capital >>

\* f"={rf_rate}+{beta}*{erp}+{size_prem}+{co_risk}"
cost_equity_formula(b) ==
    EBin("+", EBin("+", EBin("+", ERef("", Ref(b, "rf_rate")),
                                  EBin("*", ERef("", Ref(b, "beta")), ERef("", Ref(b, "erp")))),
                        ERef("", Ref(b, "size_prem"))),
              ERef("", Ref(b, "co_risk")))

\* f"={cost_debt}*(1-{tax_sheet}{tax_rate})"
atax_debt_formula(b, tax_sheet) ==
    EBin("*", ERef("", Ref(b, "cost_debt")),
              EBin("-", ENum(One), ERef(tax_sheet, Ref(b, "tax_rate"))))

\* f"={cost_equity}*(1-{debt_cap})+{atax_cost_debt}*{debt_cap}"
wacc_formula(b) ==
    EBin("+", EBin("*", ERef("", Ref(b, "cost_equity")),
                        EBin("-", ENum(One), ERef("", Ref(b, "debt_cap")))),
              EBin("*", ERef("", Ref(b, "atax_cost_debt")), ERef("", Ref(b, "debt_cap"))))

\* the three calculated rows both WACC blocks end with, from `row` on: each
\* formula is written with the registry as it stands, then its name bound
CalculatedWacc(b, ws, row, tax_sheet) ==
    LET b1 == Register(Write(b, ws, { <<row, 1, TextC("Cost of Equity (CAPM + Adj)")>>,
                                      <<row, 2, Formula(cost_equity_formula(b))>> }),
                       "cost_equity", A1("B", row))
        b2 == Register(Write(b1, ws, { <<row + 1, 1, TextC("After-Tax Cost of Debt")>>,
                                       <<row + 1, 2, Formula(atax_debt_formula(b1, tax_sheet))>> }),
                       "atax_cost_debt", A1("B", row + 1))
    IN  Register(Write(b2, ws, { <<row + 2, 1, TextC("WACC")>>,
                                 <<row + 2, 2, Formula(wacc_formula(b2))>> }),
                 "wacc", A1("B", row + 2))

build_key_assumptions_sheet(b) ==
    LET ws == "Key_Assumptions"
        x == b.a
        r_info == AfterSection(AfterTitle(1))              \* company name
        r_rev == AfterSection(r_info + 1 + 2)              \* base revenue
        r_growth == r_rev + 1
        r_op == AfterSection(r_growth + 5 + 1)
        r_wacc == AfterSection(r_op + 5 + 1)
        r_calc == r_wacc + 8 + 1
        r_tv == AfterSection(r_calc + 2 + 2)
        r_cap == AfterSection(r_tv + 1 + 2)
        r_set == AfterSection(r_cap + 1 + 2)
        b0 == Write(create_sheet(b, ws), ws,
                { <<1, 1, TextC("Key Assumptions")>>,
                  <<r_info - 1, 1, TextC("COMPANY INFORMATION")>>,
                  <<r_info, 1, TextC("Company Name")>>, <<r_info, 2, TextC(x.company_name)>>,
                  <<r_info + 1, 1, TextC("Ticker")>>, <<r_info + 1, 2, TextC(x.ticker)>>,
                  <<r_rev - 1, 1, TextC("REVENUE ASSUMPTIONS")>>,
                  <<r_op - 1, 1, TextC("OPERATING ASSUMPTIONS")>>,
                  <<r_wacc - 1, 1, TextC("WACC BUILDUP")>>,
                  <<r_tv - 1, 1, TextC("TERMINAL VALUE ASSUMPTIONS")>>,
                  <<r_cap - 1, 1, TextC("CAPITAL STRUCTURE")>>,
                  <<r_set - 1, 1, TextC("MODEL SETTINGS")>>,
                  <<r_set, 3, TextC("(1=Yes, 0=No)")>> }
                \cup InputRows(r_rev,
                       << "Base Year Revenue ($M)", "Year 1 Growth", "Year 2 Growth",
                          "Year 3 Growth", "Year 4 Growth", "Year 5 Growth" >>,
                       << x.base_revenue, x.revenue_growth_y1, x.revenue_growth_y2,
                          x.revenue_growth_y3, x.revenue_growth_y4, x.revenue_growth_y5 >>)
                \cup InputRows(r_op,
                       << "EBITDA Margin", "D&A (% of Revenue)", "CapEx (% of Revenue)",
                          "NWC (% of Revenue)", "Tax Rate" >>,
                       << x.ebitda_margin, x.da_pct_revenue, x.capex_pct_revenue,
                          b.nwc_pct_revenue, x.tax_rate >>)
                \cup InputRows(r_wacc, WaccLabels, WaccValues(b))
                \cup InputRows(r_tv,
                       << "Perpetuity Growth Rate", "Exit EV/EBITDA Multiple" >>,
                       << x.terminal_growth, x.exit_ebitda_multiple >>)
                \cup InputRows(r_cap,
                       << "Net Debt ($M)", "Shares Outstanding (M)" >>,
                       << b.net_debt, x.shares_outstanding >>)
                \cup InputRows(r_set,
                       << "Use Mid-Year Convention" >>,
                       << IF x.use_mid_year_convention THEN One ELSE Zero >>))
        b1 == RegisterRows(b0, << "base_revenue", "growth_y1", "growth_y2", "growth_y3",
                                  "growth_y4", "growth_y5" >>, r_rev)
        b2 == RegisterRows(b1, << "ebitda_margin", "da_pct", "capex_pct", "nwc_pct",
                                  "tax_rate" >>, r_op)
        b3 == RegisterRows(b2, WaccNames, r_wacc)
        b4 == CalculatedWacc(b3, ws, r_calc, "")
        b5 == RegisterRows(b4, << "term_growth", "exit_mult" >>, r_tv)
        b6 == RegisterRows(b5, << "net_debt", "shares" >>, r_cap)
    IN  RegisterRows(b6, << "mid_year" >>, r_set)

build_historical_sheets(b) ==
    Placeholder(
      Placeholder(
        Placeholder(b, "Historical_IS", "Historical IS", "(Populate with historical financials)"),
        "Historical_BS", "Historical BS", "(Populate with historical financials)"),
      "Historical_CF", "Historical CF", "(Populate with historical financials)")

GrowthRefs == << "growth_y1", "growth_y2", "growth_y3", "growth_y4", "growth_y5" >>

build_revenue_build_sheet(b) ==
    LET ws == "Revenue_Build"
        hdr == AfterTitle(1)
        g == hdr + 1
        row == g + 1
    IN  Write(create_sheet(b, ws), ws,
              { <<1, 1, TextC("Revenue Build")>> } \cup YearHeader(hdr)
              \cup { <<g, 1, TextC("Revenue Growth")>>, <<g, 2, Dash>> }
              \cup { <<g, i + 3, Formula(ERef("Key_Assumptions", Ref(b, GrowthRefs[i + 1])))>> :
                     i \in 0..4 }
              \cup { <<row, 1, TextC("Revenue")>>,
                     <<row, 2, Formula(ERef("Key_Assumptions", Ref(b, "base_revenue")))>> }
              \cup { <<row, col, Formula(EBin("*", ERef("", Addr(col - 1, row)),
                                              EBin("+", ENum(One), ERef("", Addr(col, row - 1)))))>> :
                     col \in 3..7 })

build_cogs_gross_margin_sheet(b) ==
    Placeholder(b, "COGS_Gross_Margin", "COGS & Gross Margin",
                "(Placeholder for COGS and gross margin build)")

build_opex_sheet(b) ==
    Placeholder(b, "Opex", "Operating Expenses", "(Placeholder for opex build)")

build_ebitda_bridge_sheet(b) ==
    LET ws == "EBITDA_Bridge"
        hdr == AfterTitle(1)
        row == hdr + 3
        Rev(col) == ERef("Revenue_Build", Addr(col, 5))
        Margin(col) == ERef("Key_Assumptions", Ref(b, "ebitda_margin"))
        Ebitda(col) == EBin("*", ERef("", Addr(col, row - 2)), ERef("", Addr(col, row - 1)))
    IN  Write(create_sheet(b, ws), ws,
              { <<1, 1, TextC("EBITDA Bridge")>> } \cup YearHeader(hdr)
              \cup ProjectionRow(hdr + 1, "Revenue", [c \in 2..7 |-> Rev(c)])
              \cup ProjectionRow(hdr + 2, "EBITDA Margin", [c \in 2..7 |-> Margin(c)])
              \cup ProjectionRow(row, "EBITDA", [c \in 2..7 |-> Ebitda(c)]))

\* the D&A and Capex tabs: a percentage row linked to the named input and an
\* amount row "=-Revenue_Build!{col}5*{col}{row-1}"
PctOfRevenueSheet(b, ws, heading, pct_label, name, label) ==
    LET hdr == AfterTitle(1)
        row == hdr + 2
        Pct(col) == ERef("Key_Assumptions", Ref(b, name))
        Amount(col) == EBin("*", ENeg(ERef("Revenue_Build", Addr(col, 5))),
                                 ERef("", Addr(col, row - 1)))
    IN  Write(create_sheet(b, ws), ws,
              { <<1, 1, TextC(heading)>> } \cup YearHeader(hdr)
              \cup ProjectionRow(hdr + 1, pct_label, [c \in 2..7 |-> Pct(c)])
              \cup ProjectionRow(row, label, [c \in 2..7 |-> Amount(c)]))

build_da_sheet(b) ==
    PctOfRevenueSheet(b, "D&A", "Depreciation & Amortization", "D&A (% Rev)", "da_pct", "D&A")

build_capex_sheet(b) ==
    PctOfRevenueSheet(b, "Capex", "Capital Expenditures", "Capex (% Rev)", "capex_pct", "Capex")

build_working_capital_sheet(b) ==
    LET ws == "Working_Capital"
        hdr == AfterTitle(1)
        row == hdr + 2
        Pct(col) == ERef("Key_Assumptions", Ref(b, "nwc_pct"))
    IN  Write(create_sheet(b, ws), ws,
              { <<1, 1, TextC("Working Capital")>> } \cup YearHeader(hdr)
              \cup ProjectionRow(hdr + 1, "NWC (% Rev)", [c \in 2..7 |-> Pct(c)])
              \cup { <<row, 1, TextC("Change in NWC")>>, <<row, 2, NumC(Zero)>> }
              \cup { <<row, col,
                       Formula(EBin("*", ENeg(EBin("-", ERef("", Addr(col, 5)),
                                                        ERef("", Addr(col - 1, 5)))),
                                         ERef("", Addr(col, row - 1))))>> :
                     col \in 3..7 })

build_other_operating_sheet(b) ==
    Placeholder(b, "Other_Operating", "Other Operating Items",
                "(Placeholder for other operating items)")

build_taxes_sheet(b) ==
    LET ws == "Taxes"
        hdr == AfterTitle(1)
        row == hdr + 3
        Ebit(col) == EBin("+", ERef("EBITDA_Bridge", Addr(col, 6)), ERef("D&A", Addr(col, 5)))
        Rate(col) == ERef("Key_Assumptions", Ref(b, "tax_rate"))
        Taxes(col) == EBin("*", ENeg(EMax(ENum(Zero), ERef("", Addr(col, row - 2)))),
                                ERef("", Addr(col, row - 1)))
    IN  Write(create_sheet(b, ws), ws,
              { <<1, 1, TextC("Taxes")>> } \cup YearHeader(hdr)
              \cup ProjectionRow(hdr + 1, "EBIT", [c \in 2..7 |-> Ebit(c)])
              \cup ProjectionRow(hdr + 2, "Tax Rate", [c \in 2..7 |-> Rate(c)])
              \cup ProjectionRow(row, "Taxes", [c \in 2..7 |-> Taxes(c)]))

build_unlevered_fcf_sheet(b) ==
    LET ws == "Unlevered_FCF"
        hdr == AfterTitle(1)
        row == hdr + 7
        Ebit(col) == ERef("Taxes", Addr(col, 4))
        Taxes(col) == ERef("Taxes", Addr(col, 6))
        Nopat(col) == EBin("+", ERef("", Addr(col, hdr + 3 - 2)), ERef("", Addr(col, hdr + 3 - 1)))
        Da(col) == ENeg(ERef("D&A", Addr(col, 3)))
        Capex(col) == ERef("Capex", Addr(col, 3))
        Nwc(col) == ERef("Working_Capital", Addr(col, 3))
        Fcf(col) == EBin("+", EBin("+", EBin("+", ERef("", Addr(col, row - 4)),
                                                  ERef("", Addr(col, row - 3))),
                                        ERef("", Addr(col, row - 2))),
                              ERef("", Addr(col, row - 1)))
    IN  Write(create_sheet(b, ws), ws,
              { <<1, 1, TextC("Unlevered Free Cash Flow")>> } \cup YearHeader(hdr)
              \cup ProjectionRow(hdr + 1, "EBIT", [c \in 2..7 |-> Ebit(c)])
              \cup ProjectionRow(hdr + 2, "Less: Taxes", [c \in 2..7 |-> Taxes(c)])
              \cup ProjectionRow(hdr + 3, "NOPAT", [c \in 2..7 |-> Nopat(c)])
              \cup ProjectionRow(hdr + 4, "Plus: D&A", [c \in 2..7 |-> Da(c)])
              \cup ProjectionRow(hdr + 5, "Less: Capex", [c \in 2..7 |-> Capex(c)])
              \cup ProjectionRow(hdr + 6, "Less: Change in NWC", [c \in 2..7 |-> Nwc(c)])
              \cup ProjectionRow(row, "Unlevered FCF", [c \in 2..7 |-> Fcf(c)]))

build_debt_schedule_sheet(b) ==
    Placeholder(b, "Debt_Schedule", "Debt Schedule", "(Placeholder for debt schedule)")

build_interest_expense_sheet(b) ==
    Placeholder(b, "Interest_Expense", "Interest Expense", "(Placeholder for interest schedule)")

build_share_count_sheet(b) ==
    Placeholder(b, "Share_Count", "Share Count", "(Placeholder for share count schedule)")

\* the WACC tab written with the registry left as build_key_assumptions_sheet
\* made it
build_wacc_sheet_keeps_registry(b) ==
    LET ws == "WACC"
        row == AfterSection(AfterTitle(1))
        b0 == Write(create_sheet(b, ws), ws,
                { <<1, 1, TextC("WACC Build")>>, <<row - 1, 1, TextC("WACC BUILDUP")>> }
                \cup InputRows(row, WaccLabels, WaccValues(b)))
    IN  [ CalculatedWacc(RegisterRows(b0, WaccNames, row), ws, row + 8 + 1, "Key_Assumptions")
            EXCEPT !.cell_refs = b.cell_refs ]

build_wacc_sheet(b) ==
    LET ws == "WACC"
        row == AfterSection(AfterTitle(1))
        b0 == Write(create_sheet(b, ws), ws,
                { <<1, 1, TextC("WACC Build")>>, <<row - 1, 1, TextC("WACC BUILDUP")>> }
                \cup InputRows(row, WaccLabels, WaccValues(b)))
    IN  CalculatedWacc(RegisterRows(b0, WaccNames, row), ws, row + 8 + 1, "Key_Assumptions")

\* f"={tv}/(1+WACC!{wacc})^IF(Key_Assumptions!{mid_year}=1,5,5)"
pv_tv_formula(b, tv) ==
    EBin("/", ERef("", tv),
              EBin("^", EBin("+", ENum(One), ERef("WACC", Ref(b, "wacc"))),
                        EIf(ECmp("=", ERef("Key_Assumptions", Ref(b, "mid_year")), ENum(One)),
                            ENum(QInt(5)), ENum(QInt(5)))))

build_terminal_value_sheet(b) ==
    LET ws == "Terminal_Value"
        row == AfterTitle(1)
        g == ERef("Key_Assumptions", Ref(b, "term_growth"))
    IN  Write(create_sheet(b, ws), ws,
              { <<1, 1, TextC("Terminal Value")>>,
                <<row, 1, TextC("Terminal Value (Gordon Growth)")>>,
                <<row, 2, Formula(EBin("/", EBin("*", ERef("Unlevered_FCF", A1("G", 10)),
                                                      EBin("+", ENum(One), g)),
                                            EBin("-", ERef("WACC", Ref(b, "wacc")), g)))>>,
                <<row + 1, 1, TextC("Terminal Value (Exit Multiple)")>>,
                <<row + 1, 2, Formula(EBin("*", ERef("EBITDA_Bridge", A1("G", 6)),
                                                ERef("Key_Assumptions", Ref(b, "exit_mult"))))>>,
                <<row + 2, 1, TextC("PV of TV (Gordon)")>>,
                <<row + 2, 2, Formula(pv_tv_formula(b, A1("B", 2)))>>,
                <<row + 3, 1, TextC("PV of TV (Exit Multiple)")>>,
                <<row + 3, 2, Formula(pv_tv_formula(b, A1("B", 3)))>> })

\* the enterprise value, net debt, equity value and share price rows of one
\* method of the valuation summary, the enterprise value on `row`
ValuationBlock(b, row, back, pv_tv) ==
    { <<row - 1, 1, TextC(IF back = 2 THEN "GORDON GROWTH METHOD" ELSE "EXIT MULTIPLE METHOD")>>,
      <<row, 1, TextC("Enterprise Value")>>,
      <<row, 2, Formula(EBin("+", ERef("", A1("B", row - back)), ERef("Terminal_Value", pv_tv)))>>,
      <<row + 1, 1, TextC("Less: Net Debt")>>,
      <<row + 1, 2, Formula(ENeg(ERef("Key_Assumptions", Ref(b, "net_debt"))))>>,
      <<row + 2, 1, TextC("Equity Value")>>,
      <<row + 2, 2, Formula(EBin("+", ERef("", A1("B", row + 2 - 2)), ERef("", A1("B", row + 2 - 1))))>>,
      <<row + 3, 1, TextC("Implied Share Price")>>,
      <<row + 3, 2, Formula(EBin("/", ERef("", A1("B", row + 3 - 1)),
                                      ERef("Key_Assumptions", Ref(b, "shares"))))>> }

build_dcf_valuation_sheet(b) ==
    LET ws == "DCF_Valuation"
        hdr == AfterTitle(1)
        r_fcf == hdr + 1
        r_period == AfterSection(r_fcf + 2)
        r_factor == r_period + 1
        r_pv == r_factor + 1
        r_sum == AfterSection(r_pv + 2)
        r_gordon == r_sum + 2 + 1
        r_exit == r_gordon + 3 + 2 + 1
        Fcf(col) == ERef("Unlevered_FCF", Addr(col, 10))
    IN  Write(create_sheet(b, ws), ws,
              { <<1, 1, TextC("Discounted Cash Flow Valuation")>> } \cup YearHeader(hdr)
              \cup ProjectionRow(r_fcf, "Unlevered FCF", [c \in 2..7 |-> Fcf(c)])
              \cup { <<r_period - 1, 1, TextC("PRESENT VALUE CALCULATION")>>,
                     <<r_period, 1, TextC("Discount Period")>>,
                     <<r_factor, 1, TextC("Discount Factor")>>,
                     <<r_pv, 1, TextC("PV of FCF")>>,
                     <<r_sum - 1, 1, TextC("VALUATION SUMMARY")>>,
                     <<r_sum, 1, TextC("Sum of PV of FCFs")>>,
                     <<r_sum, 2, Formula(ESum(A1("C", r_sum - 3), A1("G", r_sum - 3)))>> }
              \cup { <<r_period, i + 3,
                       Formula(EIf(ECmp("=", ERef("Key_Assumptions", Ref(b, "mid_year")), ENum(One)),
                                   EBin("+", ENum(QInt(i)), ENum(Q(1, 2))),
                                   ENum(QInt(i + 1))))>> : i \in 0..4 }
              \cup { <<r_factor, col,
                       Formula(EBin("/", ENum(One),
                                    EBin("^", EBin("+", ENum(One), ERef("WACC", Ref(b, "wacc"))),
                                              ERef("", Addr(col, r_factor - 1)))))>> : col \in 3..7 }
              \cup { <<r_pv, col,
                       Formula(EBin("*", ERef("", Addr(col, 3)), ERef("", Addr(col, r_pv - 1))))>> :
                     col \in 3..7 }
              \cup ValuationBlock(b, r_gordon, 2, A1("B", 5))
              \cup ValuationBlock(b, r_exit, 7, A1("B", 6)))

build_ev_equity_bridge_sheet(b) ==
    LET ws == "EV_Equity_Bridge"
        row == AfterTitle(1)
    IN  Write(create_sheet(b, ws), ws,
              { <<1, 1, TextC("EV to Equity Bridge")>>,
                <<row, 1, TextC("Enterprise Value (Gordon)")>>,
                <<row, 2, Formula(ERef("DCF_Valuation", A1("B", 15)))>>,
                <<row + 1, 1, TextC("Less: Net Debt")>>,
                <<row + 1, 2, Formula(ENeg(ERef("Key_Assumptions", Ref(b, "net_debt"))))>>,
                <<row + 2, 1, TextC("Equity Value")>>,
                <<row + 2, 2, Formula(EBin("+", ERef("", A1("B", 3)), ERef("", A1("B", 4))))>>,
                <<row + 3, 1, TextC("Implied Share Price")>>,
                <<row + 3, 2, Formula(EBin("/", ERef("", A1("B", 5)),
                                                ERef("Key_Assumptions", Ref(b, "shares"))))>> })

wacc_values == << Q(8, 100), Q(9, 100), Q(10, 100), Q(11, 100), Q(12, 100) >>
tg_values == << Q(15, 1000), Q(20, 1000), Q(25, 1000), Q(30, 1000), Q(35, 1000) >>
mult_values == << QInt(8), QInt(9), QInt(10), QInt(11), QInt(12) >>

\* one table of the Sensitivity tab, its header row at `row`
SensitivityTable(row, corner, across) ==
    { <<row, 1, TextC(corner)>>, <<row, 2, TextC("WACC")>> }
    \cup { <<row, i + 3, NumC(across[i + 1])>> : i \in 0..4 }
    \cup { <<row + j, 2, NumC(wacc_values[j])>> : j \in 1..5 }
    \cup { <<row + j, i + 3, Dash>> : j \in 1..5, i \in 0..4 }

build_sensitivity_sheet(b) ==
    LET ws == "Sensitivity"
        r1 == AfterSection(1 + 2) + 1
        r_note == r1 + 1 + 5 + 2
        r2 == AfterSection(r_note + 2) + 1
    IN  Write(create_sheet(b, ws), ws,
              { <<1, 1, TextC("Sensitivity Analysis")>>,
                <<r1 - 2, 1, TextC("SHARE PRICE: WACC vs TERMINAL GROWTH (Gordon Growth)")>>,
                <<r_note, 1, TextC("Note: Populate data table manually or via VBA")>>,
                <<r2 - 2, 1, TextC("SHARE PRICE: WACC vs EXIT MULTIPLE")>> }
              \cup SensitivityTable(r1, "Terminal Growth", tg_values)
              \cup SensitivityTable(r2, "Exit Multiple", mult_values))

build_scenario_manager_sheet(b) ==
    LET ws == "Scenario_Manager"
        row == AfterSection(AfterTitle(1))
    IN  Write(create_sheet(b, ws), ws,
              { <<1, 1, TextC("Scenario Manager")>>,
                <<row - 1, 1, TextC("DEAL CASE (REALISTIC CABLE TARGET)")>>,
                <<row, 1, TextC("Buyer")>>, <<row, 2, TextC("Comcast (CMCSA)")>>,
                <<row + 1, 1, TextC("Target")>>, <<row + 1, 2, TextC("Altice USA (ATUS)")>>,
                <<row + 2, 1, TextC("Deal Type")>>, <<row + 2, 2, TextC("Strategic Acquisition")>>,
                <<row + 6, 1, TextC("Funding Mix (Debt / Equity)")>>,
                <<row + 6, 2, TextC("60% / 40%")>> }
              \cup InputRows(row + 3,
                     << "Purchase Premium", "LTM EV/EBITDA Multiple", "Synergies (Run-Rate, $M)" >>,
                     << Q(30, 100), Q(75, 10), QInt(300) >>))

build_kpi_dashboard_sheet(b) ==
    LET ws == "KPI_Dashboard"
        row == AfterTitle(1)
    IN  Write(create_sheet(b, ws), ws,
              { <<1, 1, TextC("KPI Dashboard")>>,
                <<row, 1, TextC("Implied Share Price (Gordon)")>>,
                <<row, 2, Formula(ERef("DCF_Valuation", A1("B", 18)))>>,
                <<row + 1, 1, TextC("Implied Share Price (Exit)")>>,
                <<row + 1, 2, Formula(ERef("DCF_Valuation", A1("B", 24)))>> })

build_trading_comps_sheet(b) ==
    Placeholder(b, "Trading_Comps", "Trading Comps", "(Placeholder for trading comps)")

build_transactions_comps_sheet(b) ==
    Placeholder(b, "Transactions_Comps", "Transactions Comps",
                "(Placeholder for transactions comps)")

\* =IF(cond,"PASS",otherwise)
CheckFormula(cond, otherwise) == Formula(EIf(cond, EStr("PASS"), EStr(otherwise)))

build_charts_checks_sheet(b) ==
    LET ws == "Charts_Checks"
        w == ERef("WACC", Ref(b, "wacc"))
        g == ERef("Key_Assumptions", Ref(b, "term_growth"))
        checks ==
          << <<"WACC > Terminal Growth", CheckFormula(ECmp(">", w, g), "FAIL"),
               "Terminal growth must be less than WACC">>,
             <<"WACC is Reasonable (5-15%)",
               CheckFormula(EAnd(ECmp(">=", w, ENum(Q(5, 100))), ECmp("<=", w, ENum(Q(15, 100)))),
                            "WARNING"),
               "WACC typically ranges 5-15%">>,
             <<"Terminal Growth <= 4%", CheckFormula(ECmp("<=", g, ENum(Q(4, 100))), "WARNING"),
               "Should not exceed long-term GDP growth">>,
             <<"Positive Base Revenue",
               CheckFormula(ECmp(">", ERef("Key_Assumptions", Ref(b, "base_revenue")), ENum(Zero)),
                            "FAIL"),
               "Revenue must be positive">>,
             <<"Shares Outstanding > 0",
               CheckFormula(ECmp(">", ERef("Key_Assumptions", Ref(b, "shares")), ENum(Zero)),
                            "FAIL"),
               "Shares must be positive">> >>
        row == AfterSection(AfterTitle(1))
    IN  Write(create_sheet(b, ws), ws,
              { <<1, 1, TextC("Charts & Model Integrity Checks")>>,
                <<row - 1, 1, TextC("VALIDATION CHECKS")>>,
                <<row, 1, TextC("Check")>>, <<row, 2, TextC("Status")>>,
                <<row, 3, TextC("Description")>> }
              \cup UNION { { <<row + i, 1, TextC(checks[i][1])>>,
                             <<row + i, 2, checks[i][2]>>,
                             <<row + i, 3, TextC(checks[i][3])>> } : i \in 1..Len(checks) })

-----------------------------------------------------------------------------
(* generate(): the build calls in sequence, then the reorder, the active     *)
(* sheet, and the save.                                                      *)

TAB_ORDER ==
    << "Cover", "Contents", "Inputs_Index", "Key_Assumptions", "Historical_IS",
       "Historical_BS", "Historical_CF", "Revenue_Build", "COGS_Gross_Margin", "Opex",
       "EBITDA_Bridge", "D&A", "Capex", "Working_Capital", "Other_Operating", "Taxes",
       "Unlevered_FCF", "Debt_Schedule", "Interest_Expense", "Share_Count", "WACC",
       "DCF_Valuation", "Terminal_Value", "EV_Equity_Bridge", "Sensitivity",
       "Scenario_Manager", "KPI_Dashboard", "Trading_Comps", "Transactions_Comps",
       "Charts_Checks" >>

\* generate() with the terminal value sheet built ahead of the valuation sheet
GenerateOrderTerminalFirst ==
    << "build_cover_sheet", "build_contents_sheet", "build_key_assumptions_sheet",
       "build_historical_sheets", "build_revenue_build_sheet",
       "build_cogs_gross_margin_sheet", "build_opex_sheet", "build_ebitda_bridge_sheet",
       "build_da_sheet", "build_capex_sheet", "build_working_capital_sheet",
       "build_other_operating_sheet", "build_taxes_sheet", "build_unlevered_fcf_sheet",
       "build_debt_schedule_sheet", "build_interest_expense_sheet",
       "build_share_count_sheet", "build_wacc_sheet", "build_inputs_index_sheet",
       "build_terminal_value_sheet", "build_dcf_valuation_sheet",
       "build_ev_equity_bridge_sheet", "build_sensitivity_sheet",
       "build_scenario_manager_sheet", "build_kpi_dashboard_sheet",
       "build_trading_comps_sheet", "build_transactions_comps_sheet",
       "build_charts_checks_sheet" >>

\* the calls generate() makes, in its order
GenerateOrder ==
    << "build_cover_sheet", "build_contents_sheet", "build_key_assumptions_sheet",
       "build_historical_sheets", "build_revenue_build_sheet",
       "build_cogs_gross_margin_sheet", "build_opex_sheet", "build_ebitda_bridge_sheet",
       "build_da_sheet", "build_capex_sheet", "build_working_capital_sheet",
       "build_other_operating_sheet", "build_taxes_sheet", "build_unlevered_fcf_sheet",
       "build_debt_schedule_sheet", "build_interest_expense_sheet",
       "build_share_count_sheet", "build_wacc_sheet", "build_inputs_index_sheet",
       "build_dcf_valuation_sheet", "build_terminal_value_sheet",
       "build_ev_equity_bridge_sheet", "build_sensitivity_sheet",
       "build_scenario_manager_sheet", "build_kpi_dashboard_sheet",
       "build_trading_comps_sheet", "build_transactions_comps_sheet",
       "build_charts_checks_sheet" >>

\* TAB_ORDER.index(title); list.index raises ValueError for a missing title
InTabOrder(title) == \E i \in 1..Len(TAB_ORDER) : TAB_ORDER[i] = title
TabIndex(title) == CHOOSE i \in 1..Len(TAB_ORDER) : TAB_ORDER[i] = title

\* a reorder step that leaves the sheets in creation order
SortSheetsKeepsOrder(seq) == seq

\* list.sort(key=TAB_ORDER.index): a stable sort on the key
SortSheets(seq) ==
    LET n == Len(seq)
        Before(j, i) == \/ TabIndex(seq[j]) < TabIndex(seq[i])
                        \/ TabIndex(seq[j]) = TabIndex(seq[i]) /\ j < i
        rank(i) == Cardinality({ j \in 1..n : Before(j, i) }) + 1
    IN  [ p \in 1..n |-> seq[CHOOSE i \in 1..n : rank(i) = p] ]

At(where, i) == [ at |-> where, i |-> i ]

\* one build call of the caller's sequence
Call(name, built) ==
    /\ pc.at = "build"
    /\ order[pc.i] = name
    /\ model' = built
    /\ pc' = IF pc.i < Len(order) THEN At("build", pc.i + 1) ELSE At("sort", 0)
    /\ UNCHANGED <<order, saved, out, cache, request, result>>
    /\ UNCHANGED builds

BuildCoverSheet == Call("build_cover_sheet", build_cover_sheet(model))
BuildContentsSheet == Call("build_contents_sheet", build_contents_sheet(model))
BuildKeyAssumptionsSheet == Call("build_key_assumptions_sheet", build_key_assumptions_sheet(model))
BuildHistoricalSheets == Call("build_historical_sheets", build_historical_sheets(model))
BuildRevenueBuildSheet == Call("build_revenue_build_sheet", build_revenue_build_sheet(model))
BuildCogsGrossMarginSheet == Call("build_cogs_gross_margin_sheet", build_cogs_gross_margin_sheet(model))
BuildOpexSheet == Call("build_opex_sheet", build_opex_sheet(model))
BuildEbitdaBridgeSheet == Call("build_ebitda_bridge_sheet", build_ebitda_bridge_sheet(model))
BuildDaSheet == Call("build_da_sheet", build_da_sheet(model))
BuildCapexSheet == Call("build_capex_sheet", build_capex_sheet(model))
BuildWorkingCapitalSheet == Call("build_working_capital_sheet", build_working_capital_sheet(model))
BuildOtherOperatingSheet == Call("build_other_operating_sheet", build_other_operating_sheet(model))
BuildTaxesSheet == Call("build_taxes_sheet", build_taxes_sheet(model))
BuildUnleveredFcfSheet == Call("build_unlevered_fcf_sheet", build_unlevered_fcf_sheet(model))
BuildDebtScheduleSheet == Call("build_debt_schedule_sheet", build_debt_schedule_sheet(model))
BuildInterestExpenseSheet == Call("build_interest_expense_sheet", build_interest_expense_sheet(model))
BuildShareCountSheet == Call("build_share_count_sheet", build_share_count_sheet(model))
BuildWaccSheet == Call("build_wacc_sheet", build_wacc_sheet(model))
BuildInputsIndexSheet == Call("build_inputs_index_sheet", build_inputs_index_sheet(model))
BuildDcfValuationSheet == Call("build_dcf_valuation_sheet", build_dcf_valuation_sheet(model))
BuildTerminalValueSheet == Call("build_terminal_value_sheet", build_terminal_value_sheet(model))
BuildEvEquityBridgeSheet == Call("build_ev_equity_bridge_sheet", build_ev_equity_bridge_sheet(model))
BuildSensitivitySheet == Call("build_sensitivity_sheet", build_sensitivity_sheet(model))
BuildScenarioManagerSheet == Call("build_scenario_manager_sheet", build_scenario_manager_sheet(model))
BuildKpiDashboardSheet == Call("build_kpi_dashboard_sheet", build_kpi_dashboard_sheet(model))
BuildTradingCompsSheet == Call("build_trading_comps_sheet", build_trading_comps_sheet(model))
BuildTransactionsCompsSheet == Call("build_transactions_comps_sheet", build_transactions_comps_sheet(model))
BuildChartsChecksSheet == Call("build_charts_checks_sheet", build_charts_checks_sheet(model))

\* self.wb._sheets.sort(key=lambda s: self.TAB_ORDER.index(s.title))
Reorder ==
    /\ pc.at = "sort"
    /\ IF \A i \in 1..Len(model.sheets) : InTabOrder(model.sheets[i])
       THEN /\ model' = [ model EXCEPT !.sheets = SortSheets(@) ]
            /\ pc' = At("active", 0)
       ELSE /\ pc' = At("ValueError", 0)
            /\ UNCHANGED model
    /\ UNCHANGED <<order, saved, out, cache, request, result>>
    /\ UNCHANGED builds

\* self.wb.active = self.wb["Cover"]
SetActive ==
    /\ pc.at = "active"
    /\ IF \E i \in 1..Len(model.sheets) : model.sheets[i] = "Cover"
       THEN /\ model' = [ model EXCEPT !.active =
                            CHOOSE i \in 1..Len(model.sheets) : model.sheets[i] = "Cover" ]
            /\ pc' = At("save", 0)
       ELSE /\ pc' = At("KeyError", 0)
            /\ UNCHANGED model
    /\ UNCHANGED <<order, saved, out, cache, request, result>>
    /\ UNCHANGED builds

\* self.wb.save(output_path)
Save ==
    /\ pc.at = "save"
    /\ saved' = Append(saved, model.sheets)
    /\ pc' = IF request.kind = "cli" THEN At("report", 0) ELSE At("engine", 0)
    /\ UNCHANGED <<model, order, out, cache, request, result>>
    /\ UNCHANGED builds

\* the numeric block of generate_dcf, run on the same assumptions once the
\* workbook is on disk
Engine ==
    /\ pc.at = "engine"
    /\ out' = generate_dcf_outputs(model.a)
    /\ pc' = At("done", 0)
    /\ UNCHANGED <<model, order, saved, cache, request, result>>
    /\ UNCHANGED builds

Init ==
    /\ model \in { NewModel(x) : x \in Assumptions }
    /\ order = GenerateOrder
    /\ pc = At("build", 1)
    /\ saved = << >>
    /\ out = NoResult
    /\ cache = << >>
    /\ request = NoRequest
    /\ result = NoResult
    /\ builds = << >>

Next ==
    \/ BuildCoverSheet \/ BuildContentsSheet \/ BuildKeyAssumptionsSheet
    \/ BuildHistoricalSheets \/ BuildRevenueBuildSheet \/ BuildCogsGrossMarginSheet
    \/ BuildOpexSheet \/ BuildEbitdaBridgeSheet \/ BuildDaSheet \/ BuildCapexSheet
    \/ BuildWorkingCapitalSheet \/ BuildOtherOperatingSheet \/ BuildTaxesSheet
    \/ BuildUnleveredFcfSheet \/ BuildDebtScheduleSheet \/ BuildInterestExpenseSheet
    \/ BuildShareCountSheet \/ BuildWaccSheet \/ BuildInputsIndexSheet
    \/ BuildDcfValuationSheet \/ BuildTerminalValueSheet \/ BuildEvEquityBridgeSheet
    \/ BuildSensitivitySheet \/ BuildScenarioManagerSheet \/ BuildKpiDashboardSheet
    \/ BuildTradingCompsSheet \/ BuildTransactionsCompsSheet \/ BuildChartsChecksSheet
    \/ Reorder \/ SetActive \/ Save \/ Engine

Spec == Init /\ [][Next]_vars

\* how far the build sequence is rotated in the other call orders
MaxRot == 4

Rotate(seq, k) == [ i \in 1..Len(seq) |-> seq[((i - 1 + k) % Len(seq)) + 1] ]
Reverse(seq) == [ i \in 1..Len(seq) |-> seq[Len(seq) + 1 - i] ]

\* the same build calls made in other orders
Orders == { Rotate(GenerateOrder, k) : k \in 0..MaxRot } \cup { Reverse(GenerateOrder) }

ScenarioAssumptions == MkAssumptions(<< QInt(100), QInt(10), Q(1, 4), Q(1, 4), Q(1, 2) >>, Q(5, 32), Q(1, 32), FALSE)

InitAnyOrder ==
    /\ model = NewModel(ScenarioAssumptions)
    /\ order \in Orders
    /\ pc = At("build", 1)
    /\ saved = << >>
    /\ out = NoResult
    /\ cache = << >>
    /\ request = NoRequest
    /\ result = NoResult
    /\ builds = << >>

SpecAnyOrder == InitAnyOrder /\ [][Next]_vars

\* Records that vary the inputs of the derived quantities: the three day
\* counts, <<tax_rate, target_debt_to_equity, unlevered_beta>> (chosen so that
\* WACC is 1/8 or 1/4, which keeps the handler's powers of 1 + WACC small), and
\* <<total_debt, cash>>
DayCounts ==
    { << QInt(146), QInt(73), QInt(146) >>, << QInt(73), Zero, QInt(73) >>,
      << QInt(365), Zero, Zero >>, << Zero, Zero, QInt(73) >> }
CapitalStructures ==
    { << Q(1, 2), QInt(1), QInt(2) >>, << Q(1, 2), Zero, QInt(5) >>,
      << Q(1, 2), QInt(3), QInt(6) >>, << Zero, QInt(1), Q(1, 2) >> }
DebtAndCash == { << QInt(30), QInt(10) >>, << Zero, QInt(50) >> }

DerivedAssumptions ==
    { [ BaseAssumptions EXCEPT
          !.days_sales_outstanding = d[1], !.days_inventory_outstanding = d[2],
          !.days_payables_outstanding = d[3],
          !.tax_rate = c[1], !.target_debt_to_equity = c[2], !.unlevered_beta = c[3],
          !.total_debt = n[1], !.cash = n[2] ] :
        d \in DayCounts, c \in CapitalStructures, n \in DebtAndCash }

InitDerived ==
    /\ model \in { NewModel(x) : x \in DerivedAssumptions }
    /\ order = GenerateOrder
    /\ pc = At("build", 1)
    /\ saved = << >>
    /\ out = NoResult
    /\ cache = << >>
    /\ request = NoRequest
    /\ result = NoResult
    /\ builds = << >>

SpecDerived == InitDerived /\ [][Next]_vars

-----------------------------------------------------------------------------
(* The financial-facts provider (data/sec_fetcher.py) and the resolver       *)
(* (core/question_generator.py).                                             *)

None == [ none |-> TRUE ]

\* r[1] / 1_000_000: dollars to millions
Millions(v) == QDiv(QInt(v), QInt(1000000))

\* revenue_data[-5:]
LastFive(seq) == IF Len(seq) <= 5 THEN seq ELSE SubSeq(seq, Len(seq) - 4, Len(seq))

\* the growth of each year over the one before, where that one is positive
RECURSIVE growth_rates_of(_)
growth_rates_of(revs) ==
    IF Len(revs) < 2 THEN << >>
    ELSE LET n == Len(revs)
             earlier == growth_rates_of(SubSeq(revs, 1, n - 1))
         IN  IF QGt(revs[n - 1], Zero)
             THEN Append(earlier, QDiv(QSub(revs[n], revs[n - 1]), revs[n - 1]))
             ELSE earlier

\* SECFetcher.fetch on what the SEC holds for the ticker: whether a CIK and
\* company facts were found, and the reported values in dollars (ebitda_data:
\* operating income plus the D&A of the same year)
fetch(ticker, filing) ==
    IF ~filing.cik THEN None
    ELSE IF ~filing.facts THEN None
    ELSE IF filing.revenue_data = << >> THEN None
    ELSE LET revs == [ i \in 1..Len(LastFive(filing.revenue_data)) |->
                             Millions(LastFive(filing.revenue_data)[i]) ]
             ebs == [ i \in 1..Len(LastFive(filing.ebitda_data)) |->
                            Millions(LastFive(filing.ebitda_data)[i]) ]
         IN  [ ticker |-> ticker,
               name |-> filing.name,
               revenue |-> revs,
               ebitda |-> ebs,
               total_debt |-> Millions(filing.total_debt),
               cash |-> Millions(filing.cash),
               shares_outstanding |-> Millions(filing.shares),
               ebitda_margin |->
                   IF ebs # << >> /\ QGt(revs[Len(revs)], Zero)
                   THEN QDiv(ebs[Len(ebs)], revs[Len(revs)])
                   ELSE Zero,
               revenue_growth |-> growth_rates_of(revs) ]

\* answers.get(key, default)
Get(answers, key, default) == IF key \in DOMAIN answers THEN answers[key] ELSE default

\* a value of the answers mapping that is not a number (a JSON string): a
\* number is a pair <<numerator, denominator>>
NonNumeric(text) == << 0, 0, text >>
IsNumeric(v) == Len(v) = 2

\* QuestionGenerator.create_assumptions_from_answers: ccc = dso + dio - dpo
\* (line 463) raises TypeError when one of the three is a string; every other
\* answer goes into the record as it is
create_assumptions_from_answers(fin, answers) ==
  IF \E key \in { "days_sales_outstanding", "days_inventory_outstanding",
                  "days_payables_outstanding" } : ~IsNumeric(Get(answers, key, Zero))
  THEN [ status |-> "TypeError", line |-> 463 ]
  ELSE
    [ company_name |-> fin.name,
      ticker |-> fin.ticker,
      base_revenue |-> IF fin.revenue # << >> THEN fin.revenue[Len(fin.revenue)] ELSE Zero,
      revenue_growth_y1 |-> Get(answers, "revenue_growth_y1", Q(10, 100)),
      revenue_growth_y2 |-> Get(answers, "revenue_growth_y2", Q(8, 100)),
      revenue_growth_y3 |-> Get(answers, "revenue_growth_y3", Q(6, 100)),
      revenue_growth_y4 |-> Get(answers, "revenue_growth_y4", Q(5, 100)),
      revenue_growth_y5 |-> Get(answers, "revenue_growth_y5", Q(4, 100)),
      ebitda_margin |->
          Get(answers, "ebitda_margin",
              IF QLt(fin.ebitda_margin, Q(80, 100)) THEN fin.ebitda_margin ELSE Q(25, 100)),
      ebitda_margin_y5 |-> Get(answers, "ebitda_margin_y5", Q(28, 100)),
      da_pct_revenue |-> Get(answers, "da_pct_revenue", Q(4, 100)),
      capex_pct_revenue |-> Get(answers, "capex_pct_revenue", Q(5, 100)),
      maintenance_capex_pct |-> Get(answers, "maintenance_capex_pct", Q(60, 100)),
      sbc_pct_revenue |-> Get(answers, "sbc_pct_revenue", Q(8, 100)),
      days_sales_outstanding |-> Get(answers, "days_sales_outstanding", QInt(45)),
      days_inventory_outstanding |-> Get(answers, "days_inventory_outstanding", QInt(15)),
      days_payables_outstanding |-> Get(answers, "days_payables_outstanding", QInt(35)),
      other_working_capital_pct |-> Q(2, 100),
      tax_rate |-> Get(answers, "tax_rate", Q(24, 100)),
      nol_balance |-> Get(answers, "nol_balance", Zero),
      risk_free_rate |-> Get(answers, "risk_free_rate", Q(43, 1000)),
      equity_risk_premium |-> Get(answers, "equity_risk_premium", Q(55, 1000)),
      unlevered_beta |-> Get(answers, "unlevered_beta", One),
      size_premium |-> Get(answers, "size_premium", Q(1, 100)),
      company_specific_risk |-> Get(answers, "company_specific_risk", Q(1, 100)),
      pre_tax_cost_of_debt |-> Get(answers, "pre_tax_cost_of_debt", Q(65, 1000)),
      target_debt_to_equity |-> Get(answers, "target_debt_to_equity", Q(25, 100)),
      terminal_growth |-> Get(answers, "terminal_growth", Q(25, 1000)),
      exit_ebitda_multiple |-> Get(answers, "exit_ebitda_multiple", QInt(12)),
      exit_revenue_multiple |-> Get(answers, "exit_revenue_multiple", QInt(3)),
      total_debt |-> fin.total_debt,
      cash |-> fin.cash,
      minority_interest |-> Get(answers, "minority_interest", Zero),
      preferred_stock |-> Zero,
      shares_outstanding |-> fin.shares_outstanding,
      options_dilution |-> Get(answers, "options_dilution", Q(3, 100)),
      use_mid_year_convention |-> TRUE,
      projection_years |-> 5 ]

\* the larger of the two where min() takes the smaller
QMinTakesLarger(a, b) == IF QLt(b, a) THEN a ELSE b
\* min(a, b)
QMin(a, b) == IF QLt(b, a) THEN b ELSE a
QMax(a, b) == IF QGt(b, a) THEN b ELSE a

\* QuestionGenerator._calc_avg_growth
calc_avg_growth(fin) ==
    IF fin.revenue_growth = << >> THEN Q(5, 100)
    ELSE QDiv(QSum(fin.revenue_growth), QInt(Len(fin.revenue_growth)))

\* QuestionGenerator._calc_implied_beta
calc_implied_beta(fin) ==
    IF QGt(fin.ebitda_margin, Q(30, 100)) THEN Q(85, 100)
    ELSE IF QGt(fin.ebitda_margin, Q(20, 100)) THEN One
    ELSE IF QGt(fin.ebitda_margin, Q(10, 100)) THEN Q(115, 100)
    ELSE Q(13, 10)

\* QuestionGenerator._estimate_dso, _estimate_dio, _estimate_dpo
estimate_dso == QInt(45)
estimate_dio == QInt(15)
estimate_dpo == QInt(35)

DCFQuestion(id, default_value, value_type, min_value, max_value) ==
    [ id |-> id, default_value |-> default_value, value_type |-> value_type,
      min_value |-> min_value, max_value |-> max_value ]

\* QuestionGenerator.generate_questions
generate_questions(fin) ==
    <<
       DCFQuestion("revenue_growth_y1", QMin(QMul(calc_avg_growth(fin), Q(9, 10)), Q(20, 100)),
                   "percent", Q(-1, 5), Q(1, 2)),
       DCFQuestion("revenue_growth_y2", QMin(QMul(calc_avg_growth(fin), Q(80, 100)), Q(15, 100)),
                   "percent", Q(-1, 5), Q(2, 5)),
       DCFQuestion("revenue_growth_y3", QMin(QMul(calc_avg_growth(fin), Q(65, 100)), Q(12, 100)),
                   "percent", Q(-3, 20), Q(3, 10)),
       DCFQuestion("revenue_growth_y4", QMin(QMul(calc_avg_growth(fin), Q(50, 100)), Q(8, 100)),
                   "percent", Q(-1, 10), Q(1, 4)),
       DCFQuestion("revenue_growth_y5", QMin(QMul(calc_avg_growth(fin), Q(40, 100)), Q(5, 100)),
                   "percent", Q(-1, 10), Q(1, 5)),
       DCFQuestion("ebitda_margin", IF QLt(fin.ebitda_margin, Q(80, 100))
                 THEN QMax(fin.ebitda_margin, Q(10, 100)) ELSE Q(25, 100),
                   "percent", Q(1, 20), Q(3, 5)),
       DCFQuestion("ebitda_margin_y5", IF QLt(fin.ebitda_margin, Q(80, 100))
                 THEN QMin(QAdd(QMax(fin.ebitda_margin, Q(10, 100)), Q(3, 100)), Q(40, 100))
                 ELSE Q(28, 100),
                   "percent", Q(1, 20), Q(3, 5)),
       DCFQuestion("sbc_pct_revenue", Q(2, 25),
                   "percent", Zero, Q(1, 4)),
       DCFQuestion("da_pct_revenue", Q(1, 25),
                   "percent", Q(1, 100), Q(3, 20)),
       DCFQuestion("capex_pct_revenue", Q(1, 20),
                   "percent", Q(1, 100), Q(1, 5)),
       DCFQuestion("maintenance_capex_pct", Q(3, 5),
                   "percent", Q(3, 10), QInt(1)),
       DCFQuestion("days_sales_outstanding", estimate_dso,
                   "number", QInt(15), QInt(120)),
       DCFQuestion("days_inventory_outstanding", estimate_dio,
                   "number", Zero, QInt(180)),
       DCFQuestion("days_payables_outstanding", estimate_dpo,
                   "number", QInt(15), QInt(120)),
       DCFQuestion("tax_rate", Q(6, 25),
                   "percent", Zero, Q(2, 5)),
       DCFQuestion("nol_balance", Zero,
                   "currency", Zero, QInt(10000)),
       DCFQuestion("risk_free_rate", Q(43, 1000),
                   "percent", Q(1, 100), Q(1, 10)),
       DCFQuestion("equity_risk_premium", Q(11, 200),
                   "percent", Q(3, 100), Q(1, 10)),
       DCFQuestion("unlevered_beta", calc_implied_beta(fin),
                   "number", Q(1, 2), QInt(2)),
       DCFQuestion("size_premium", Q(1, 100),
                   "percent", Zero, Q(3, 50)),
       DCFQuestion("company_specific_risk", Q(1, 100),
                   "percent", Zero, Q(1, 20)),
       DCFQuestion("pre_tax_cost_of_debt", Q(13, 200),
                   "percent", Q(3, 100), Q(3, 20)),
       DCFQuestion("target_debt_to_equity", Q(1, 4),
                   "number", Zero, QInt(2)),
       DCFQuestion("terminal_growth", Q(1, 40),
                   "percent", Zero, Q(1, 25)),
       DCFQuestion("exit_ebitda_multiple", QInt(12),
                   "multiple", QInt(4), QInt(30)),
       DCFQuestion("exit_revenue_multiple", QInt(3),
                   "multiple", Q(1, 2), QInt(15)),
       DCFQuestion("minority_interest", Zero,
                   "currency", Zero, QInt(50000)),
       DCFQuestion("options_dilution", Q(3, 100),
                   "percent", Zero, Q(3, 20)) >>

\* the ids of the questions (they do not depend on the snapshot)
QuestionIds ==
    LET questions == generate_questions([ ebitda_margin |-> Zero, revenue_growth |-> << >> ])
    IN  { questions[i].id : i \in 1..Len(questions) }

\* the question with the given id
QuestionOf(fin, id) ==
    LET questions == generate_questions(fin)
    IN  questions[CHOOSE i \in 1..Len(questions) : questions[i].id = id]

\* QuestionGenerator.get_defaults; quick_mode of main.py returns it
get_defaults(fin) == [ id \in QuestionIds |-> QuestionOf(fin, id).default_value ]

\* the resolver on its own: a snapshot and a set of answers, then the record
SnapshotOf(revenue, margin, shares) ==
    [ ticker |-> "TEST", name |-> "Test Corp", revenue |-> revenue, ebitda |-> << >>,
      total_debt |-> QInt(30), cash |-> QInt(10), shares_outstanding |-> shares,
      ebitda_margin |-> margin, revenue_growth |-> growth_rates_of(revenue) ]

Snapshots ==
    { SnapshotOf(r, m, sh) :
        r \in { << >>, << QInt(100) >>, << QInt(80), QInt(100) >> },
        m \in { Q(1, 4), Q(9, 10), Q(-1, 10) },
        sh \in { QInt(10), Zero } }

\* answers that override every input of the projection, with binary fractions
\* and 1 + WACC = 4, a perfect square: the resolver turns the mid-year
\* convention on, and the handler then takes half-integer powers of 1 + WACC
FullAnswers ==
    [ revenue_growth_y1 |-> Q(1, 2), revenue_growth_y2 |-> Zero,
      revenue_growth_y3 |-> QInt(1), revenue_growth_y4 |-> Zero,
      revenue_growth_y5 |-> Q(-1, 2),
      ebitda_margin |-> Q(1, 4), ebitda_margin_y5 |-> Q(1, 2),
      da_pct_revenue |-> Q(1, 8), capex_pct_revenue |-> Q(1, 16),
      days_sales_outstanding |-> QInt(146),
      days_inventory_outstanding |-> QInt(73),
      days_payables_outstanding |-> QInt(146),
      tax_rate |-> Q(1, 2),
      risk_free_rate |-> Q(189, 32), equity_risk_premium |-> Q(1, 64),
      unlevered_beta |-> QInt(2), size_premium |-> Q(1, 128),
      company_specific_risk |-> Q(1, 128),
      pre_tax_cost_of_debt |-> Q(1, 16), target_debt_to_equity |-> QInt(1),
      terminal_growth |-> Q(1, 32), exit_ebitda_multiple |-> QInt(8),
      minority_interest |-> QInt(5), options_dilution |-> Q(1, 4) ]

Restrict(f, keys) == [ k \in keys |-> f[k] ]

\* the answers a caller of the resolver gives: none, some, or all of these
AnswerSets ==
    { Restrict(FullAnswers, keys) : keys \in SUBSET { "ebitda_margin", "tax_rate", "terminal_growth" } }

\* what the analyst may type at a prompt of the questionnaire, besides Enter
TypedTexts == { "abc", "10", "0.5", "10%" }

\* user_input.replace("%", "") on these texts
StripPercent(text) == IF text = "10%" THEN "10" ELSE text

\* float(text) on these texts; None stands for ValueError
float(text) ==
    CASE text = "10" -> QInt(10)
      [] text = "0.5" -> Q(1, 2)
      [] OTHER -> None

\* interactive_mode of main.py: `typed` maps the ids of the prompts that got
\* an input to the text typed; every other prompt got Enter
interactive_mode(fin, typed) ==
    [ id \in QuestionIds |->
        LET q == QuestionOf(fin, id)
        IN  IF id \notin DOMAIN typed THEN q.default_value
            ELSE IF q.value_type = "percent"
            THEN LET val == float(StripPercent(typed[id]))
                 IN  IF val = None THEN q.default_value
                     ELSE IF QGt(val, One) THEN QDiv(val, QInt(100))
                     ELSE val
            ELSE LET val == float(typed[id])
                 IN  IF val = None THEN q.default_value ELSE val ]

\* the prompts that get an input in the model, one at a time
TypedInputs ==
    { << >> } \cup
    { id :> text : id \in { "terminal_growth", "exit_ebitda_multiple", "days_sales_outstanding" },
                   text \in TypedTexts }

\* the mappings the resolver is called with: the answers of an API request
\* (AnswerSets; with a key that is no assumption id; with a string for a
\* value), the defaults of quick mode, and the answers of the questionnaire
CallerAnswers(fin) ==
    AnswerSets
    \cup { ("beta" :> QInt(2)) @@ Restrict(FullAnswers, { "tax_rate" }) }
    \cup { "terminal_growth" :> NonNumeric("abc"),
           "days_sales_outstanding" :> NonNumeric("n/a") }
    \cup { get_defaults(fin) }
    \cup { interactive_mode(fin, typed) : typed \in TypedInputs }

Resolve ==
    /\ pc.at = "resolve"
    /\ result' = create_assumptions_from_answers(request.fin, request.answers)
    /\ pc' = At("resolved", 0)
    /\ UNCHANGED <<model, order, saved, out, cache, request>>
    /\ UNCHANGED builds

NoModel ==
    [ a |-> None, sheets |-> << >>, active |-> 0, cells |-> << >>, cell_refs |-> << >> ]

InitResolver ==
    /\ request \in UNION { { [ seq |-> 1, kind |-> "resolve", fin |-> fin, answers |-> answers ] :
                                 answers \in CallerAnswers(fin) } : fin \in Snapshots }
    /\ pc = At("resolve", 0)
    /\ model = NoModel
    /\ order = << >>
    /\ saved = << >>
    /\ out = NoResult
    /\ cache = << >>
    /\ result = NoResult
    /\ builds = << >>

NextResolver == Resolve

SpecResolver == InitResolver /\ [][NextResolver]_vars

-----------------------------------------------------------------------------
(* The default questions of a company, for revenue histories of up to      *)
(* three fiscal years: flat, growing and shrinking, so that the historical  *)
(* average growth is negative, zero, below every ceiling, between the       *)
(* ceilings (20% a year: 18% the first year, 15% the second) and above      *)
(* them all.                                                                *)

RevenueLevels == { QInt(50), QInt(80), QInt(100), QInt(120), QInt(200) }

RevenueHistories ==
    { << >> } \cup { << a >> : a \in RevenueLevels }
    \cup { << a, b >> : a \in RevenueLevels, b \in RevenueLevels }
    \cup { << a, b, c >> : a \in RevenueLevels, b \in RevenueLevels, c \in RevenueLevels }

InitDefaults ==
    /\ request \in { [ seq |-> 1, kind |-> "questions",
                       fin |-> SnapshotOf(revenue, Q(1, 4), QInt(10)) ] :
                     revenue \in RevenueHistories }
    /\ pc = At("questions", 0)
    /\ model = NoModel
    /\ order = << >>
    /\ saved = << >>
    /\ out = NoResult
    /\ cache = << >>
    /\ result = NoResult
    /\ builds = << >>

\* questions = QuestionGenerator(financials).generate_questions()
GenerateQuestions ==
    /\ pc.at = "questions"
    /\ result' = [ status |-> "ok", questions |-> generate_questions(request.fin) ]
    /\ pc' = At("asked", 0)
    /\ UNCHANGED <<model, order, saved, out, cache, request>>
    /\ UNCHANGED builds

NextDefaults == GenerateQuestions

SpecDefaults == InitDefaults /\ [][NextDefaults]_vars

-----------------------------------------------------------------------------
(* The callers: POST /api/generate and GET /api/company/{ticker} of        *)
(* web/api.py, and run() of main.py.                                        *)

\* how many calls are served
MaxRequests == 2

Tickers == { "aapl", "AAPL", "zzzz" }

\* ticker.upper()
Upper(t) == CASE t = "aapl" -> "AAPL" [] t = "zzzz" -> "ZZZZ" [] OTHER -> t

GoodFiling ==
    [ cik |-> TRUE, facts |-> TRUE, name |-> "Apple Inc.",
      revenue_data |-> << 80000000, 100000000 >>, ebitda_data |-> << 25000000 >>,
      total_debt |-> 30000000, cash |-> 10000000, shares |-> 10000000 ]

\* what the SEC may answer for a ticker: ZZZZ is not listed; AAPL is, but the
\* facts request can fail and the facts can lack every revenue tag
Filings(ticker) ==
    IF ticker = "AAPL"
    THEN { GoodFiling, [ GoodFiling EXCEPT !.facts = FALSE ],
           [ GoodFiling EXCEPT !.revenue_data = << >> ] }
    ELSE { [ GoodFiling EXCEPT !.cik = FALSE ] }

RequestAnswers == { FullAnswers, [ FullAnswers EXCEPT !.terminal_growth = QInt(3) ] }

\* an error response that reports success
HTTPExceptionAsSuccess(status_code) == [ status |-> 200 ]

\* raise HTTPException(status_code=...)
HTTPException(status_code) == [ status |-> status_code ]

\* generate_dcf up to the call of generate_dcf_model, lines 125-150
ApiGenerate ==
    /\ pc.at = "idle"
    /\ request.seq < MaxRequests
    /\ \E t \in Tickers, answers \in RequestAnswers :
         \E filing \in Filings(Upper(t)) :
           LET ticker == Upper(t)
               cached == ticker \in DOMAIN cache
               financials == IF cached THEN cache[ticker] ELSE fetch(ticker, filing)
           IN  /\ request' = [ seq |-> request.seq + 1, kind |-> "generate", ticker |-> ticker,
                               fetched |-> ~cached, financials |-> financials ]
               /\ IF financials = None
                  THEN /\ result' = HTTPException(404)
                       /\ UNCHANGED <<model, order, pc, saved, out, cache>>
                  ELSE /\ cache' = (ticker :> financials) @@ cache
                       /\ model' = NewModel(create_assumptions_from_answers(financials, answers))
                       /\ order' = GenerateOrder
                       /\ pc' = At("build", 1)
                       /\ out' = NoResult
                       /\ result' = NoResult
                       /\ UNCHANGED saved
    /\ UNCHANGED builds

\* generate_dcf from load_workbook on, lines 152-386: the response, or the
\* 500 of an exception nobody catches
Respond ==
    /\ pc.at = "done"
    /\ request.kind = "generate"
    /\ result' = IF out.status = "ok"
                 THEN [ status |-> 200, tabs |-> saved[Len(saved)],
                        missing_tabs |-> { TAB_ORDER[i] : i \in 1..Len(TAB_ORDER) }
                                         \ { saved[Len(saved)][i] : i \in 1..Len(saved[Len(saved)]) },
                        outputs |-> out ]
                 ELSE [ status |-> 500 ]
    /\ pc' = At("idle", 0)
    /\ UNCHANGED <<model, order, saved, out, cache, request>>
    /\ UNCHANGED builds

\* get_company_data without the cache check: every request is fetched
ApiCompanyAlwaysFetches ==
    /\ pc.at = "idle"
    /\ request.seq < MaxRequests
    /\ \E t \in Tickers :
         \E filing \in Filings(Upper(t)) :
           LET ticker == Upper(t)
               financials == fetch(ticker, filing)
           IN  /\ request' = [ seq |-> request.seq + 1, kind |-> "company", ticker |-> ticker,
                               fetched |-> TRUE, financials |-> financials ]
               /\ IF financials = None
                  THEN /\ result' = HTTPException(404)
                       /\ UNCHANGED cache
                  ELSE /\ cache' = (ticker :> financials) @@ cache
                       /\ result' = [ status |-> 200, company |-> financials.ticker,
                                      financials |-> financials ]
    /\ UNCHANGED <<model, order, pc, saved, out>>
    /\ UNCHANGED builds

\* get_company_data, lines 70-122
ApiCompany ==
    /\ pc.at = "idle"
    /\ request.seq < MaxRequests
    /\ \E t \in Tickers :
         \E filing \in Filings(Upper(t)) :
           LET ticker == Upper(t)
               cached == ticker \in DOMAIN cache
               financials == IF cached THEN cache[ticker] ELSE fetch(ticker, filing)
           IN  /\ request' = [ seq |-> request.seq + 1, kind |-> "company", ticker |-> ticker,
                               fetched |-> ~cached, financials |-> financials ]
               /\ IF financials = None
                  THEN /\ result' = HTTPException(404)
                       /\ UNCHANGED cache
                  ELSE /\ cache' = (ticker :> financials) @@ cache
                       /\ result' = [ status |-> 200, company |-> financials.ticker,
                                      financials |-> financials ]
    /\ UNCHANGED <<model, order, pc, saved, out>>
    /\ UNCHANGED builds

\* run() of main.py up to the call of generate_dcf_model, lines 117-150
CliRun ==
    /\ pc.at = "idle"
    /\ request.seq < MaxRequests
    /\ \E t \in Tickers, answers \in RequestAnswers :
         \E filing \in Filings(Upper(t)) :
           LET ticker == Upper(t)
               financials == fetch(ticker, filing)
           IN  /\ request' = [ seq |-> request.seq + 1, kind |-> "cli", ticker |-> ticker,
                               fetched |-> TRUE, financials |-> financials ]
               /\ IF financials = None
                  THEN /\ result' = [ returned |-> "None", exit |-> 1 ]
                       /\ UNCHANGED <<model, order, pc, out>>
                  ELSE /\ model' = NewModel(create_assumptions_from_answers(financials, answers))
                       /\ order' = GenerateOrder
                       /\ pc' = At("build", 1)
                       /\ out' = NoResult
                       /\ result' = NoResult
    /\ UNCHANGED <<saved, cache>>
    /\ UNCHANGED builds

\* run() after generate_dcf_model, lines 153-165: the summary reads
\* assumptions.beta, which DCFAssumptions does not have, so the process ends
\* on AttributeError with the file written
CliReport ==
    /\ pc.at = "report"
    /\ result' = [ returned |-> "AttributeError", exit |-> 1 ]
    /\ pc' = At("idle", 0)
    /\ UNCHANGED <<model, order, saved, out, cache, request>>
    /\ UNCHANGED builds

InitRequest ==
    /\ request = NoRequest
    /\ pc = At("idle", 0)
    /\ model = NoModel
    /\ order = << >>
    /\ saved = << >>
    /\ out = NoResult
    /\ cache = << >>
    /\ result = NoResult
    /\ builds = << >>

NextRequest ==
    \/ ApiGenerate \/ ApiCompany \/ CliRun \/ Respond \/ CliReport
    \/ BuildCoverSheet \/ BuildContentsSheet \/ BuildKeyAssumptionsSheet
    \/ BuildHistoricalSheets \/ BuildRevenueBuildSheet \/ BuildCogsGrossMarginSheet
    \/ BuildOpexSheet \/ BuildEbitdaBridgeSheet \/ BuildDaSheet \/ BuildCapexSheet
    \/ BuildWorkingCapitalSheet \/ BuildOtherOperatingSheet \/ BuildTaxesSheet
    \/ BuildUnleveredFcfSheet \/ BuildDebtScheduleSheet \/ BuildInterestExpenseSheet
    \/ BuildShareCountSheet \/ BuildWaccSheet \/ BuildInputsIndexSheet
    \/ BuildDcfValuationSheet \/ BuildTerminalValueSheet \/ BuildEvEquityBridgeSheet
    \/ BuildSensitivitySheet \/ BuildScenarioManagerSheet \/ BuildKpiDashboardSheet
    \/ BuildTradingCompsSheet \/ BuildTransactionsCompsSheet \/ BuildChartsChecksSheet
    \/ Reorder \/ SetActive \/ Save \/ Engine

SpecRequest == InitRequest /\ [][NextRequest]_vars

-----------------------------------------------------------------------------
(* Two builds side by side.  generate_dcf_model constructs one               *)
(* ProfessionalDCFModel per call and runs its generate(); every build_*      *)
(* method reads and writes through self only (self.wb, self._cell_refs,      *)
(* self.a), and the class attributes TAB_ORDER and STYLES are only read.     *)
(* The steps of the two calls interleave in any order.  Each build carries,  *)
(* next to its instance, the instance the same calls produce when nothing    *)
(* else runs (`alone`), which no step of the other build can reach.          *)

\* the build_* method of that name called on the instance b
ApplyBuilder(name, b) ==
    CASE name = "build_cover_sheet" -> build_cover_sheet(b)
      [] name = "build_contents_sheet" -> build_contents_sheet(b)
      [] name = "build_key_assumptions_sheet" -> build_key_assumptions_sheet(b)
      [] name = "build_historical_sheets" -> build_historical_sheets(b)
      [] name = "build_revenue_build_sheet" -> build_revenue_build_sheet(b)
      [] name = "build_cogs_gross_margin_sheet" -> build_cogs_gross_margin_sheet(b)
      [] name = "build_opex_sheet" -> build_opex_sheet(b)
      [] name = "build_ebitda_bridge_sheet" -> build_ebitda_bridge_sheet(b)
      [] name = "build_da_sheet" -> build_da_sheet(b)
      [] name = "build_capex_sheet" -> build_capex_sheet(b)
      [] name = "build_working_capital_sheet" -> build_working_capital_sheet(b)
      [] name = "build_other_operating_sheet" -> build_other_operating_sheet(b)
      [] name = "build_taxes_sheet" -> build_taxes_sheet(b)
      [] name = "build_unlevered_fcf_sheet" -> build_unlevered_fcf_sheet(b)
      [] name = "build_debt_schedule_sheet" -> build_debt_schedule_sheet(b)
      [] name = "build_interest_expense_sheet" -> build_interest_expense_sheet(b)
      [] name = "build_share_count_sheet" -> build_share_count_sheet(b)
      [] name = "build_wacc_sheet" -> build_wacc_sheet(b)
      [] name = "build_inputs_index_sheet" -> build_inputs_index_sheet(b)
      [] name = "build_dcf_valuation_sheet" -> build_dcf_valuation_sheet(b)
      [] name = "build_terminal_value_sheet" -> build_terminal_value_sheet(b)
      [] name = "build_ev_equity_bridge_sheet" -> build_ev_equity_bridge_sheet(b)
      [] name = "build_sensitivity_sheet" -> build_sensitivity_sheet(b)
      [] name = "build_scenario_manager_sheet" -> build_scenario_manager_sheet(b)
      [] name = "build_kpi_dashboard_sheet" -> build_kpi_dashboard_sheet(b)
      [] name = "build_trading_comps_sheet" -> build_trading_comps_sheet(b)
      [] name = "build_transactions_comps_sheet" -> build_transactions_comps_sheet(b)
      [] name = "build_charts_checks_sheet" -> build_charts_checks_sheet(b)

BuildIds == 1..2

\* the registry that self._cell_refs names in build k if the dictionary were
\* an attribute of the class: one dictionary for every instance
ClassRegistry(bs, k) ==
    bs[k].model.cell_refs @@ bs[3 - k].model.cell_refs

\* the registry that self._cell_refs names in build k: the dictionary its own
\* constructor made
OwnRegistry(bs, k) ==
    bs[k].model.cell_refs

\* the instance as the methods of build k see it through self
Self(bs, k) == [ bs[k].model EXCEPT !.cell_refs = OwnRegistry(bs, k) ]

\* the records of two requests: the scenario's company and another one
OtherCompany ==
    [ ScenarioAssumptions EXCEPT !.company_name = "Other Corp", !.ticker = "OTHR",
                                 !.base_revenue = QInt(200), !.tax_rate = Q(1, 4) ]
PairedAssumptions == { ScenarioAssumptions, OtherCompany }

InitTwoBuilds ==
    /\ builds \in { [ k \in BuildIds |->
                        [ a |-> p[k], model |-> NoModel, alone |-> NoModel,
                          pc |-> At("call", 0) ] ] :
                    p \in PairedAssumptions \X PairedAssumptions }
    /\ model = NoModel
    /\ order = GenerateOrder
    /\ pc = At("idle", 0)
    /\ saved = << >>
    /\ out = NoResult
    /\ cache = << >>
    /\ request = NoRequest
    /\ result = NoResult

\* model = ProfessionalDCFModel(assumptions)
GenerateDcfModel(k) ==
    /\ builds[k].pc.at = "call"
    /\ builds' = [ builds EXCEPT ![k].model = NewModel(builds[k].a),
                                 ![k].alone = NewModel(builds[k].a),
                                 ![k].pc = At("build", 1) ]
    /\ UNCHANGED <<model, order, pc, saved, out, cache, request, result>>

\* one build_* call of generate() in build k
BuildStep(k) ==
    /\ builds[k].pc.at = "build"
    /\ LET i == builds[k].pc.i
       IN  builds' = [ builds EXCEPT
                         ![k].model = ApplyBuilder(order[i], Self(builds, k)),
                         ![k].alone = ApplyBuilder(order[i], builds[k].alone),
                         ![k].pc = IF i < Len(order) THEN At("build", i + 1)
                                   ELSE At("sort", 0) ]
    /\ UNCHANGED <<model, order, pc, saved, out, cache, request, result>>

\* the sheet order, the active sheet and the file of an instance at the end
\* of generate()
Finished(b) ==
    [ b EXCEPT !.sheets = SortSheets(@),
               !.active = CHOOSE i \in 1..Len(b.sheets) : SortSheets(b.sheets)[i] = "Cover" ]

\* the tail of generate() in build k: reorder, activate the cover, save
BuildTail(k) ==
    /\ builds[k].pc.at = "sort"
    /\ builds' = [ builds EXCEPT ![k].model = Finished(Self(builds, k)),
                                 ![k].alone = Finished(builds[k].alone),
                                 ![k].pc = At("done", 0) ]
    /\ saved' = Append(saved, Finished(Self(builds, k)).sheets)
    /\ UNCHANGED <<model, order, pc, out, cache, request, result>>

NextTwoBuilds ==
    \E k \in BuildIds : GenerateDcfModel(k) \/ BuildStep(k) \/ BuildTail(k)

SpecTwoBuilds == InitTwoBuilds /\ [][NextTwoBuilds]_vars

-----------------------------------------------------------------------------
(* What a spreadsheet application computes for the cells of the workbook.    *)
(* An empty cell counts as 0 in arithmetic, text in arithmetic is #VALUE!,   *)
(* errors propagate, a division by zero is #DIV/0!, a reference with no      *)
(* address or to a missing sheet is #REF!, and a cell on a reference cycle,  *)
(* or depending on one, has no value ("circular").  The values are computed  *)
(* in rounds: a formula gets its value in the round after the cells it       *)
(* refers to have theirs.                                                    *)

VNum(q) == [ t |-> "n", v |-> q ]
VText(str) == [ t |-> "s", s |-> str ]
VBool(v) == [ t |-> "b", v |-> v ]
VErr(e) == [ t |-> "err", e |-> e ]
VEmpty == [ t |-> "empty" ]
VPending == [ t |-> "pending" ]

\* the operand of an arithmetic operator
AsNumber(v) ==
    CASE v.t = "n" -> v
      [] v.t = "empty" -> VNum(Zero)
      [] v.t = "b" -> VNum(IF v.v THEN One ELSE Zero)
      [] v.t = "s" -> VErr("#VALUE!")
      [] OTHER -> v

\* x^y for y a multiple of one half
Power(x, y) ==
    LET h == IF y[2] = 1 THEN 2 * y[1] ELSE y[1]
    IN  IF QIsZero(x) /\ h <= 0 THEN VErr(IF h = 0 THEN "#NUM!" ELSE "#DIV/0!")
        ELSE IF h % 2 # 0 /\ QLt(x, Zero) THEN VErr("#NUM!")
        ELSE IF h < 0 THEN VNum(QInv(QPowHalf(x, -h)))
        ELSE VNum(QPowHalf(x, h))

Arith(op, lv, rv) ==
    LET l == AsNumber(lv)
        r == AsNumber(rv)
    IN  IF l.t = "pending" \/ r.t = "pending" THEN VPending
        ELSE IF l.t = "err" THEN l
        ELSE IF r.t = "err" THEN r
        ELSE CASE op = "+" -> VNum(QAdd(l.v, r.v))
               [] op = "-" -> VNum(QSub(l.v, r.v))
               [] op = "*" -> VNum(QMul(l.v, r.v))
               [] op = "/" -> IF QIsZero(r.v) THEN VErr("#DIV/0!") ELSE VNum(QDiv(l.v, r.v))
               [] op = "^" -> Power(l.v, r.v)

Compare(op, lv, rv) ==
    LET l == AsNumber(lv)
        r == AsNumber(rv)
    IN  IF l.t = "pending" \/ r.t = "pending" THEN VPending
        ELSE IF l.t = "err" THEN l
        ELSE IF r.t = "err" THEN r
        ELSE CASE op = "=" -> VBool(l.v = r.v)
               [] op = ">" -> VBool(QGt(l.v, r.v))
               [] op = ">=" -> VBool(QGe(l.v, r.v))
               [] op = "<=" -> VBool(QLe(l.v, r.v))

\* the condition of IF and the arguments of AND
AsBool(v) ==
    CASE v.t = "b" -> v
      [] v.t = "n" -> VBool(~QIsZero(v.v))
      [] v.t = "empty" -> VBool(FALSE)
      [] v.t = "s" -> VErr("#VALUE!")
      [] OTHER -> v

\* MAX and SUM skip text and empty cells they reach through a reference
Aggregate(op, vs) ==
    LET errs == { i \in 1..Len(vs) : vs[i].t = "err" }
        nums == { i \in 1..Len(vs) : vs[i].t = "n" }
    IN  IF \E i \in 1..Len(vs) : vs[i].t = "pending" THEN VPending
        ELSE IF errs # {} THEN vs[CHOOSE i \in errs : \A j \in errs : i <= j]
        ELSE IF op = "sum" THEN VNum(QSum([ i \in 1..Len(vs) |-> IF i \in nums THEN vs[i].v ELSE Zero ]))
        ELSE IF nums = {} THEN VNum(Zero)
        ELSE VNum(vs[CHOOSE i \in nums : \A j \in nums : QGe(vs[i].v, vs[j].v)].v)

\* the value, among the values `vals` found so far, of the cell at `addr` of
\* `sheet`
Lookup(b, vals, sheet, addr) ==
    IF addr = NoAddr \/ ~(\E i \in 1..Len(b.sheets) : b.sheets[i] = sheet) THEN VErr("#REF!")
    ELSE LET key == << sheet, addr[2], column_index(addr[1]) >>
         IN  IF key \in DOMAIN vals THEN vals[key] ELSE VEmpty

RECURSIVE EvalExpr(_, _, _, _)
EvalExpr(b, vals, sheet, e) ==
    CASE e.k = "num" -> VNum(e.v)
      [] e.k = "str" -> VText(e.s)
      [] e.k = "ref" -> Lookup(b, vals, IF e.sheet = "" THEN sheet ELSE e.sheet, e.addr)
      [] e.k = "neg" -> Arith("-", VNum(Zero), EvalExpr(b, vals, sheet, e.e))
      [] e.k = "bin" -> Arith(e.op, EvalExpr(b, vals, sheet, e.l), EvalExpr(b, vals, sheet, e.r))
      [] e.k = "cmp" -> Compare(e.op, EvalExpr(b, vals, sheet, e.l), EvalExpr(b, vals, sheet, e.r))
      [] e.k = "max" -> Aggregate("max", << EvalExpr(b, vals, sheet, e.l),
                                            EvalExpr(b, vals, sheet, e.r) >>)
      [] e.k = "and" ->
           LET l == AsBool(EvalExpr(b, vals, sheet, e.l))
               r == AsBool(EvalExpr(b, vals, sheet, e.r))
           IN  IF l.t = "pending" \/ r.t = "pending" THEN VPending
               ELSE IF l.t = "err" THEN l ELSE IF r.t = "err" THEN r ELSE VBool(l.v /\ r.v)
      [] e.k = "if" ->
           LET c == AsBool(EvalExpr(b, vals, sheet, e.c))
           IN  IF c.t \in { "err", "pending" } THEN c
               ELSE IF c.v THEN EvalExpr(b, vals, sheet, e.th)
               ELSE EvalExpr(b, vals, sheet, e.el)
      [] e.k = "sum" ->
           LET c1 == column_index(e.from[1])
               c2 == column_index(e.to[1])
           IN  Aggregate("sum", [ i \in 1..(c2 - c1 + 1) |->
                                    Lookup(b, vals, sheet, A1(Letters[c1 + i - 1], e.from[2])) ])

\* constants have their value at once; a formula is pending
InitialValues(b) ==
    [ key \in DOMAIN b.cells |->
        LET c == b.cells[key]
        IN  CASE c.t = "num" -> VNum(c.v)
              [] c.t = "text" -> VText(c.s)
              [] c.t = "formula" -> VPending ]

\* one round: every pending formula is evaluated on the values found so far
Round(b, vals) ==
    [ key \in DOMAIN b.cells |->
        IF vals[key].t # "pending" THEN vals[key]
        ELSE LET v == EvalExpr(b, vals, key[1], b.cells[key].e)
             IN  IF v.t = "empty" THEN VNum(Zero) ELSE v ]

RECURSIVE Rounds(_, _)
Rounds(b, vals) ==
    LET next == Round(b, vals)
    IN  IF next = vals THEN vals ELSE Rounds(b, next)

\* the value of every cell of the workbook
CellValues(b) ==
    LET vals == Rounds(b, InitialValues(b))
    IN  [ key \in DOMAIN vals |->
            IF vals[key].t = "pending" THEN VErr("circular") ELSE vals[key] ]

\* the value at sheet!{letter}{row} among the values `vals` of the workbook
ValueIn(b, vals, sheet, letter, row) ==
    LET v == Lookup(b, vals, sheet, A1(letter, row))
    IN  IF v.t = "pending" THEN VErr("circular") ELSE v

\* the value a spreadsheet application shows for sheet!{letter}{row}
Value(b, sheet, letter, row) == ValueIn(b, CellValues(b), sheet, letter, row)

-----------------------------------------------------------------------------
(* Properties.                                                               *)

Built(title) == \E i \in 1..Len(model.sheets) : model.sheets[i] = title

\* a plain number, as opposed to a marker for "no value"
IsNumber(v) == v \in Int \X Int

RECURSIVE HasBlankRef(_)
\* the formula text has a reference with nothing where its address belongs
HasBlankRef(e) ==
    CASE e.k = "ref" -> e.addr = NoAddr
      [] e.k = "neg" -> HasBlankRef(e.e)
      [] e.k \in { "bin", "cmp", "max", "and" } -> HasBlankRef(e.l) \/ HasBlankRef(e.r)
      [] e.k = "if" -> HasBlankRef(e.c) \/ HasBlankRef(e.th) \/ HasBlankRef(e.el)
      [] OTHER -> FALSE

BlankFormulaCells ==
    { key \in DOMAIN model.cells :
        model.cells[key].t = "formula" /\ HasBlankRef(model.cells[key].e) }

\* value cells of the Inputs_Index tab that hold the dash instead of a link
PlaceholderCells ==
    { key \in DOMAIN model.cells :
        key[1] = "Inputs_Index" /\ key[3] = 2 /\ model.cells[key] = Dash }

\* C1: once generate() and the numeric block have both run on a record, the
\* workbook's formulas evaluate, for each of the years 0..5, to the engine's
\* revenue, EBITDA and unlevered FCF, and to its WACC, its two terminal values
\* and its two implied share prices.
C1_WorkbookMatchesEngine ==
    (pc.at = "done" /\ out.status = "ok") =>
        LET vals == CellValues(model)
            V(sheet, letter, row) == ValueIn(model, vals, sheet, letter, row)
        IN  /\ \A i \in 1..6 :
                  /\ V("Revenue_Build", Letters[i + 1], 5) = VNum(out.revenue[i])
                  /\ V("EBITDA_Bridge", Letters[i + 1], 6) = VNum(out.ebitda[i])
                  /\ V("Unlevered_FCF", Letters[i + 1], 10) = VNum(out.fcf[i])
            /\ V("WACC", "B", 15) = VNum(out.wacc)
            /\ V("Terminal_Value", "B", 3) = VNum(out.tv_gordon)
            /\ V("Terminal_Value", "B", 4) = VNum(out.tv_exit)
            /\ V("DCF_Valuation", "B", 18) = VNum(out.price_gordon)
            /\ V("DCF_Valuation", "B", 24) = VNum(out.price_exit)

\* the engine has a year-1 cash flow and the workbook's year-1 cash flow cell
\* evaluates to an error
C1_WorkbookCashFlowIsError ==
    /\ pc.at = "done"
    /\ out.status = "ok"
    /\ Value(model, "Unlevered_FCF", "C", 10) = VErr("#VALUE!")

\* C2: whatever order the build calls are made in, a lookup of a name that is
\* not registered never leaves a formula with a blank reference, nor a dash in
\* place of a link, in the workbook.
C2_UnresolvedLookupFails == BlankFormulaCells = {} /\ PlaceholderCells = {}

\* an Inputs_Index built ahead of the assumptions holds dashes, and the build
\* goes on
C2_PlaceholderWritten ==
    /\ PlaceholderCells # {}
    /\ pc.at = "done"

\* C3: no step rebinds a registered name to another cell.
C3_RegistryWriteOnce ==
    [][\A n \in DOMAIN model.cell_refs : model'.cell_refs[n] = model.cell_refs[n]]_vars

\* rf_rate, registered as B23 by the assumptions sheet, is bound to B4 once the
\* WACC sheet is built
C3_RfRateRebound ==
    /\ Built("WACC")
    /\ "rf_rate" \in DOMAIN model.cell_refs
    /\ model.cell_refs["rf_rate"] = A1("B", 4)

\* every sheet of a group of `chain` exists before any sheet of a later group
BuiltInOrder(chain) ==
    \A i \in 1..Len(chain), j \in 1..Len(chain) :
        i < j => \A first \in chain[i], later \in chain[j] : Built(later) => Built(first)

\* C4 (as stated): the formula sheets are built in the order Assumptions,
\* Revenue, Margins/EBITDA, D&A/Capex/Working Capital, Taxes, Unlevered FCF,
\* WACC, Terminal Value, DCF Valuation, Equity Bridge, Validation.
C4_StatedBuildOrder ==
    BuiltInOrder(<< { "Key_Assumptions" }, { "Revenue_Build" }, { "EBITDA_Bridge" },
                    { "D&A", "Capex", "Working_Capital" }, { "Taxes" }, { "Unlevered_FCF" },
                    { "WACC" }, { "Terminal_Value" }, { "DCF_Valuation" },
                    { "EV_Equity_Bridge" }, { "Charts_Checks" } >>)

\* C4 (amended): the formula sheets are built in the order Assumptions,
\* Revenue, Margins/EBITDA, D&A/Capex/Working Capital, Taxes, Unlevered FCF,
\* WACC, DCF Valuation, Terminal Value, Equity Bridge, Validation.
C4_BuildOrder ==
    BuiltInOrder(<< { "Key_Assumptions" }, { "Revenue_Build" }, { "EBITDA_Bridge" },
                    { "D&A", "Capex", "Working_Capital" }, { "Taxes" }, { "Unlevered_FCF" },
                    { "WACC" }, { "DCF_Valuation" }, { "Terminal_Value" },
                    { "EV_Equity_Bridge" }, { "Charts_Checks" } >>)

\* the valuation sheet exists and the terminal value sheet does not yet
C4_ValuationBeforeTerminal == Built("DCF_Valuation") /\ ~Built("Terminal_Value")

\* C5: whatever order the build calls were made in, the reorder step leaves
\* exactly the tabs of TAB_ORDER, each once and in that sequence, reordering
\* again changes nothing, Cover is the active sheet once it has been set, and
\* the saved file lists the same tabs.
C5_TabOrder ==
    /\ pc.at \notin { "ValueError", "KeyError" }
    /\ pc.at \in { "active", "save", "engine", "done" } =>
          /\ model.sheets = TAB_ORDER
          /\ Len(model.sheets) = 30
          /\ Cardinality({ model.sheets[i] : i \in 1..Len(model.sheets) }) = 30
          /\ SortSheets(model.sheets) = model.sheets
    /\ pc.at \in { "save", "engine", "done" } =>
          /\ model.sheets[model.active] = "Cover"
          /\ (CHOOSE i \in 1..Len(model.sheets) : model.sheets[i] = "Cover") = model.active
    /\ pc.at \in { "engine", "done" } => saved = << TAB_ORDER >>

\* a build that made its calls in another order than generate() has been saved
C5_OtherOrderSaved ==
    /\ pc.at = "done"
    /\ order # GenerateOrder
    /\ saved = << TAB_ORDER >>

\* C6: for a record whose terminal growth is at least its WACC the engine
\* returns a result in which the "WACC > Terminal Growth" check has failed and
\* the Gordon terminal value is not a number.
C6_GordonUndefined ==
    (pc.at = "done" /\ QGe(model.a.terminal_growth, wacc(model.a))) =>
        /\ out.status = "ok"
        /\ out.validations[1].status = "fail"
        /\ ~IsNumber(out.tv_gordon)

\* terminal growth above WACC: the check fails and the Gordon terminal value is
\* a negative number
C6_NegativeGordon ==
    /\ pc.at = "done"
    /\ QGt(model.a.terminal_growth, wacc(model.a))
    /\ out.status = "ok"
    /\ out.validations[1].status = "fail"
    /\ QLt(out.tv_gordon, Zero)

\* C7: for every record the engine returns a result; it never ends in an
\* exception.
C7_EngineAlwaysReturns == pc.at = "done" => out.status = "ok"

\* the engine ended in ZeroDivisionError
C7_EngineRaised ==
    /\ pc.at = "done"
    /\ out.status = "ZeroDivisionError"

\* C8: when diluted shares are zero the engine returns a result in which
\* neither implied share price is a number.
C8_UndefinedSharePrice ==
    (pc.at = "done" /\ QIsZero(diluted_shares(model.a))) =>
        /\ out.status = "ok"
        /\ ~IsNumber(out.price_gordon)
        /\ ~IsNumber(out.price_exit)

\* diluted shares are zero and both implied share prices are the number 0
C8_ZeroSharePrice ==
    /\ pc.at = "done"
    /\ QIsZero(diluted_shares(model.a))
    /\ out.status = "ok"
    /\ out.price_gordon = Zero
    /\ out.price_exit = Zero

\* C9: the resolver, given a snapshot with no historical revenue, does not
\* return an assumption record.
C9_EmptyRevenueFails ==
    (pc.at = "resolved" /\ request.fin.revenue = << >>) => "base_revenue" \notin DOMAIN result

\* the resolver has returned a record with base revenue 0 for a snapshot with
\* no historical revenue
C9_BaseRevenueDefaulted ==
    /\ pc.at = "resolved"
    /\ request.fin.revenue = << >>
    /\ result.base_revenue = Zero

\* C10: a call whose provider returns no snapshot ends with 404 (web API) or
\* with return value None and exit status 1 (CLI), and it resolves no
\* assumption record, starts no build and writes no file; outside a call that
\* got a snapshot nothing is being built.
C10_NoSnapshotFails ==
    [][ /\ (request'.seq # request.seq /\ request'.financials = None) =>
              /\ request'.fetched
              /\ result' = IF request'.kind = "cli"
                           THEN [ returned |-> "None", exit |-> 1 ]
                           ELSE [ status |-> 404 ]
              /\ model' = model
              /\ saved' = saved
              /\ out' = out
              /\ cache' = cache
              /\ pc' = pc
        /\ (model' # model \/ saved' # saved) =>
              request'.kind \in { "generate", "cli" } /\ request'.financials # None ]_vars

\* a second call, for a listed company whose facts hold no revenue, has ended
\* with 404 and the files are those of the first call
C10_NotFound ==
    /\ request.seq = 2
    /\ request.kind = "generate"
    /\ request.ticker = "AAPL"
    /\ request.financials = None
    /\ result = [ status |-> 404 ]
    /\ Len(saved) = 1
    /\ pc.at = "idle"

\* the resolver returned a record (it did not raise)
Resolved == pc.at = "resolved" /\ "ticker" \in DOMAIN result

\* C11: in the record the resolver returns, every assumption id holds the
\* caller's value when the mapping has the id, and otherwise the default that
\* generate_questions / get_defaults computes for it from the snapshot; and the
\* keys that are no assumption ids make no difference to the record.
C11_OverridesAndDefaults ==
    Resolved =>
        /\ \A id \in QuestionIds :
              result[id] = IF id \in DOMAIN request.answers
                           THEN request.answers[id]
                           ELSE get_defaults(request.fin)[id]
        /\ result = create_assumptions_from_answers(
                        request.fin,
                        Restrict(request.answers, DOMAIN request.answers \cap QuestionIds))

\* for a snapshot with one year of growth (25%) and a mapping without the
\* year-1 growth, the record holds 10% where the question's default is 20%
C11_DefaultDiffers ==
    /\ Resolved
    /\ request.fin.revenue_growth = << Q(1, 4) >>
    /\ "revenue_growth_y1" \notin DOMAIN request.answers
    /\ result.revenue_growth_y1 = Q(10, 100)
    /\ get_defaults(request.fin).revenue_growth_y1 = Q(20, 100)

\* the value is a number within the bounds its question declares
WithinBounds(fin, id, v) ==
    /\ IsNumeric(v)
    /\ QGe(v, QuestionOf(fin, id).min_value)
    /\ QLe(v, QuestionOf(fin, id).max_value)

\* C12: the resolver always returns a record, and in it every id whose value
\* in the mapping is not a number, or lies outside the bounds of its question,
\* holds the default of that question.
C12_InvalidValueDefaulted ==
    pc.at = "resolved" =>
        /\ "ticker" \in DOMAIN result
        /\ \A id \in QuestionIds \cap DOMAIN request.answers :
              ~WithinBounds(request.fin, id, request.answers[id]) =>
                  result[id] = QuestionOf(request.fin, id).default_value

\* a tax rate of 50%, above the 40% its question allows, is in the record
C12_OutOfBoundsKept ==
    /\ Resolved
    /\ "tax_rate" \in DOMAIN request.answers
    /\ request.answers.tax_rate = Q(1, 2)
    /\ QuestionOf(request.fin, "tax_rate").max_value = Q(40, 100)
    /\ result.tax_rate = Q(1, 2)

\* the equity value and the share price of rows `eq_row` and `px_row` follow
\* from the enterprise value of row `ev_row` as in generate_dcf (lines 264-272)
BridgeAsEngine(vals, sheet, ev_row, eq_row, px_row) ==
    LET ev == ValueIn(model, vals, sheet, "B", ev_row)
        net_debt == QSub(model.a.total_debt, model.a.cash)
    IN  ev.t = "n" =>
            LET equity == equity_of(ev.v, net_debt, model.a.minority_interest)
            IN  /\ ValueIn(model, vals, sheet, "B", eq_row) = VNum(equity)
                /\ QGt(diluted_shares(model.a), Zero) =>
                      ValueIn(model, vals, sheet, "B", px_row)
                          = VNum(QDiv(equity, diluted_shares(model.a)))

\* C13: in the finished workbook, wherever an enterprise value is a number, the
\* equity value below it is that value less net debt less minority interest,
\* and the implied share price is the equity value over shares outstanding x
\* (1 + options dilution): in both blocks of DCF_Valuation and in
\* EV_Equity_Bridge.
C13_SameEquityBridge ==
    pc.at = "done" =>
        LET vals == CellValues(model)
        IN  /\ BridgeAsEngine(vals, "DCF_Valuation", 15, 17, 18)
            /\ BridgeAsEngine(vals, "DCF_Valuation", 21, 23, 24)
            /\ BridgeAsEngine(vals, "EV_Equity_Bridge", 3, 5, 6)

\* with a minority interest of 5 and a dilution of 25%, the Gordon equity value
\* of the workbook is enterprise value less net debt only, and its share price
\* is that over the undiluted share count
C13_BridgeWithoutMinorityAndDilution ==
    /\ pc.at = "done"
    /\ model.a.minority_interest = QInt(5)
    /\ model.a.options_dilution = Q(1, 4)
    /\ model.a.shares_outstanding = QInt(10)
    /\ LET vals == CellValues(model)
           ev == ValueIn(model, vals, "DCF_Valuation", "B", 15)
           equity == ValueIn(model, vals, "DCF_Valuation", "B", 17)
       IN  /\ ev.t = "n"
           /\ equity = VNum(QSub(ev.v, QSub(model.a.total_debt, model.a.cash)))
           /\ ValueIn(model, vals, "DCF_Valuation", "B", 18) = VNum(QDiv(equity.v, QInt(10)))

\* C14: the NWC percentage, the levered beta, the net debt and the debt weight
\* that ProfessionalDCFModel.__init__ derived from a record are the ones the
\* numeric block of generate_dcf derives from the same record.
C14_SameDerivedQuantities ==
    (pc.at = "done" /\ out.status = "ok") =>
          /\ model.nwc_pct_revenue = out.nwc_pct
          /\ model.levered_beta = out.levered_beta
          /\ model.debt_to_capital = out.debt_weight
          /\ model.net_debt = out.net_debt

\* both have run on a record with net cash, no leverage and a negative cash
\* conversion cycle
C14_DerivedOnNetCash ==
    /\ pc.at = "done"
    /\ out.status = "ok"
    /\ QLt(out.net_debt, Zero)
    /\ out.debt_weight = Zero
    /\ out.levered_beta = QInt(5)
    /\ QLt(model.nwc_pct_revenue, Zero)

\* the result of the numeric block on the record of this run with another
\* terminal growth rate
WithGrowth(g) == generate_dcf_outputs([ model.a EXCEPT !.terminal_growth = g ])

\* the growth rates above this run's that are still below its WACC
HigherGrowths ==
    { g \in TerminalGrowths : QGt(g, model.a.terminal_growth) /\ QGt(wacc(model.a), g) }

\* a > b, by the sign of the difference (the denominators of two results of
\* one record have a small common multiple; their product may not fit)
Above(a, b) == QGt(QSub(a, b), Zero)

StatusOf(label) ==
    CASE label = VText("PASS") -> "pass"
      [] label = VText("FAIL") -> "fail"
      [] label = VText("WARNING") -> "warn"
      [] OTHER -> "none"

RECURSIVE HasRef(_)
\* the expression reads at least one cell
HasRef(e) ==
    CASE e.k = "ref" -> e.addr # NoAddr
      [] e.k = "neg" -> HasRef(e.e)
      [] e.k \in { "bin", "cmp", "max", "and" } -> HasRef(e.l) \/ HasRef(e.r)
      [] e.k = "if" -> HasRef(e.c)
      [] OTHER -> FALSE

\* the five checks of Charts_Checks (rows 5-9) are formulas whose conditions
\* read cells, and they evaluate to the labels that the validation list gives
\* the same invariants
ChecksAsValidations ==
    LET vals == CellValues(model)
    IN  \A i \in 1..5 :
          /\ model.cells[<<"Charts_Checks", 4 + i, 2>>].t = "formula"
          /\ HasRef(model.cells[<<"Charts_Checks", 4 + i, 2>>].e)
          /\ StatusOf(ValueIn(model, vals, "Charts_Checks", "B", 4 + i))
                = out.validations[i].status

\* C16: for every record, once the workbook and the numeric block are done,
\* there is a numeric result, and each of the five invariants has the same
\* outcome in its Charts_Checks formula as in the validation list of that
\* result, the checks being formulas over cells.
C16_ChecksMatchValidations ==
    pc.at = "done" => (out.status = "ok" /\ ChecksAsValidations)

\* terminal growth equals WACC: the workbook shows FAIL for the first check and
\* the numeric block has raised, so there is no validation list
C16_FailShownNoValidationList ==
    /\ pc.at = "done"
    /\ model.a.terminal_growth = wacc(model.a)
    /\ Value(model, "Charts_Checks", "B", 5) = VText("FAIL")
    /\ out.status = "ZeroDivisionError"

\* wherever the numeric block returns a result, the five outcomes agree
C16_ChecksMatchWhenReturned ==
    (pc.at = "done" /\ out.status = "ok") => ChecksAsValidations


\* the names some build has registered
RegisteredNames == UNION { DOMAIN builds[k].model.cell_refs : k \in DOMAIN builds }

TaxesOn(ebit, tax_rate) == QMul(QMax(Zero, ebit), tax_rate)

\* the Taxes sheet and the NOPAT row of Unlevered_FCF: the tax row is minus
\* the tax on the sheet's own EBIT, and NOPAT is that EBIT less the tax
SheetTaxesFloorAtZero(vals) ==
    \A col \in 2..7 :
        LET c == get_column_letter(col)
            ebit == ValueIn(model, vals, "Taxes", c, 4)
            rate == ValueIn(model, vals, "Taxes", c, 5)
        IN  /\ ebit.t = "n" /\ rate.t = "n"
            /\ ValueIn(model, vals, "Taxes", c, 6) = VNum(QNeg(TaxesOn(ebit.v, rate.v)))
            /\ ValueIn(model, vals, "Unlevered_FCF", c, 6)
                   = VNum(QSub(ebit.v, TaxesOn(ebit.v, rate.v)))

\* C18: in every year 0..5, whatever the sign of EBIT, taxes are
\* max(0, EBIT) x tax rate and NOPAT is EBIT less those taxes, in the numeric
\* projection as in the Taxes sheet.
C18_TaxesFloorAtZero ==
    (pc.at = "done" /\ out.status = "ok") =>
        /\ \A i \in 1..6 :
               out.nopat[i] = QSub(out.ebit[i], TaxesOn(out.ebit[i], model.a.tax_rate))
        /\ SheetTaxesFloorAtZero(CellValues(model))

\* a base year with an operating loss: the sheet charges no tax on it, the
\* projection's NOPAT is above its EBIT
C18_LossTaxBenefited ==
    /\ pc.at = "done" /\ out.status = "ok"
    /\ QLt(out.ebit[1], Zero)
    /\ QGt(out.nopat[1], out.ebit[1])
    /\ Value(model, "Taxes", "B", 4).t = "n"
    /\ QLt(Value(model, "Taxes", "B", 4).v, Zero)
    /\ Value(model, "Taxes", "B", 6) = VNum(Zero)
    /\ Value(model, "Unlevered_FCF", "B", 6) = Value(model, "Taxes", "B", 4)

\* the sheet side of C18 alone holds in every run of generate()
C18_SheetTaxesFloorAtZero ==
    pc.at = "done" => SheetTaxesFloorAtZero(CellValues(model))

\* the margin of year i as the specification words it
RampedMargin(x, i) ==
    QAdd(x.ebitda_margin,
         QDiv(QMul(QInt(i), QSub(x.ebitda_margin_y5, x.ebitda_margin)), QInt(5)))

\* C19: in each year 0..5 the EBITDA margin is base_margin + i x
\* (terminal_margin - base_margin)/5 and EBITDA is revenue x margin, in the
\* numeric projection and in the EBITDA Margin and EBITDA rows of
\* EBITDA_Bridge alike.
C19_MarginRamp ==
    (pc.at = "done" /\ out.status = "ok") =>
        LET vals == CellValues(model)
        IN  \A i \in 0..5 :
                LET c == get_column_letter(i + 2)
                    rev == ValueIn(model, vals, "EBITDA_Bridge", c, 4)
                    mgn == ValueIn(model, vals, "EBITDA_Bridge", c, 5)
                IN  /\ out.margin[i + 1] = RampedMargin(model.a, i)
                    /\ out.ebitda[i + 1] = QMul(out.revenue[i + 1], out.margin[i + 1])
                    /\ mgn = VNum(RampedMargin(model.a, i))
                    /\ rev.t = "n"
                    /\ ValueIn(model, vals, "EBITDA_Bridge", c, 6) = VNum(QMul(rev.v, mgn.v))

\* a record whose margin moves from 25% to 50%: the year-5 margin of the
\* sheet is still the base margin, the projection's is the terminal one
C19_SheetMarginFlat ==
    /\ pc.at = "done" /\ out.status = "ok"
    /\ model.a.ebitda_margin # model.a.ebitda_margin_y5
    /\ out.margin[6] = model.a.ebitda_margin_y5
    /\ Value(model, "EBITDA_Bridge", "G", 5) = VNum(model.a.ebitda_margin)
    /\ Value(model, "EBITDA_Bridge", "G", 4) = VNum(out.revenue[6])
    /\ Value(model, "EBITDA_Bridge", "G", 6) # VNum(out.ebitda[6])

\* the projection's side of C19 alone holds in every run that returns
C19_EngineMarginRamp ==
    (pc.at = "done" /\ out.status = "ok") =>
        \A i \in 0..5 :
            /\ out.margin[i + 1] = RampedMargin(model.a, i)
            /\ out.ebitda[i + 1] = QMul(out.revenue[i + 1], out.margin[i + 1])

\* the discount factor the projection applies to FCF[5]
FactorOfYearFive(x) == df(wacc(x), discount_period2(x.use_mid_year_convention, 5))

\* the projection's present values of the two terminal values are the
\* terminal values times the factor of FCF[5]
EngineTerminalAtPeriodFive ==
    /\ out.pv_fcf[5] = QMul(out.fcf[6], FactorOfYearFive(model.a))
    /\ out.pv_tv_gordon = QMul(out.tv_gordon, FactorOfYearFive(model.a))
    /\ out.pv_tv_exit = QMul(out.tv_exit, FactorOfYearFive(model.a))

\* the same on the sheets: the PV rows of Terminal_Value are the terminal
\* value rows times the year-5 discount factor of DCF_Valuation
SheetTerminalAtPeriodFive(vals) ==
    LET factor == ValueIn(model, vals, "DCF_Valuation", "G", 8)
        tv_gordon == ValueIn(model, vals, "Terminal_Value", "B", 3)
        tv_exit == ValueIn(model, vals, "Terminal_Value", "B", 4)
    IN  /\ factor.t = "n"
        /\ tv_gordon.t = "n" =>
               ValueIn(model, vals, "Terminal_Value", "B", 5)
                   = VNum(QMul(tv_gordon.v, factor.v))
        /\ tv_exit.t = "n" =>
               ValueIn(model, vals, "Terminal_Value", "B", 6)
                   = VNum(QMul(tv_exit.v, factor.v))

\* C20: both terminal values are discounted with the factor applied to
\* FCF[5], 1/(1+WACC)^discount_period[5], with mid-year and with end-of-year
\* discounting, in the numeric projection and on the Terminal_Value sheet.
C20_TerminalAtPeriodFive ==
    (pc.at = "done" /\ out.status = "ok") =>
        /\ EngineTerminalAtPeriodFive
        /\ SheetTerminalAtPeriodFive(CellValues(model))

\* a mid-year run with WACC = 300%: FCF[5] is discounted over 4.5 years
\* (factor 1/512, on the sheet too) and the exit terminal value over 5
\* (1/1024); on the sheet the PV of the exit terminal value is no number
C20_MidYearTerminalAtFive ==
    /\ pc.at = "done" /\ out.status = "ok"
    /\ model.a.use_mid_year_convention
    /\ out.tv_exit # Zero
    /\ FactorOfYearFive(model.a) = Q(1, 512)
    /\ out.pv_fcf[5] = QMul(out.fcf[6], Q(1, 512))
    /\ out.pv_tv_exit = QMul(out.tv_exit, Q(1, 1024))
    /\ Value(model, "DCF_Valuation", "G", 7) = VNum(Q(9, 2))
    /\ Value(model, "DCF_Valuation", "G", 8) = VNum(Q(1, 512))
    /\ Value(model, "Terminal_Value", "B", 4).t = "n"
    /\ Value(model, "Terminal_Value", "B", 6).t = "err"

\* with end-of-year discounting the projection's side of C20 holds
C20_EndYearEngineAtPeriodFive ==
    (pc.at = "done" /\ out.status = "ok" /\ ~model.a.use_mid_year_convention) =>
        EngineTerminalAtPeriodFive

RECURSIVE RefsOf(_, _)
\* the cells a formula of sheet ws reads, each as <<sheet, address>>
RefsOf(ws, e) ==
    CASE e.k = "ref" -> { << IF e.sheet = "" THEN ws ELSE e.sheet, e.addr >> }
      [] e.k = "neg" -> RefsOf(ws, e.e)
      [] e.k \in { "bin", "cmp", "max", "and" } -> RefsOf(ws, e.l) \cup RefsOf(ws, e.r)
      [] e.k = "if" -> RefsOf(ws, e.c) \cup RefsOf(ws, e.th) \cup RefsOf(ws, e.el)
      [] e.k = "sum" ->
           { << ws, A1(Letters[c], e.from[2]) >> :
               c \in column_index(e.from[1])..column_index(e.to[1]) }
      [] OTHER -> { }

\* the cells the formula at sheet!{column}{row} reads; none for a constant
CellRefs(b, ws, row, col) ==
    IF <<ws, row, col>> \in DOMAIN b.cells /\ b.cells[<<ws, row, col>>].t = "formula"
    THEN RefsOf(ws, b.cells[<<ws, row, col>>].e)
    ELSE { }

\* C21: on Unlevered_FCF, in every year column, the D&A, capex and
\* change-in-NWC lines read the cells holding that year's amounts on the D&A,
\* Capex and Working_Capital sheets (row 5 of each), and the Unlevered FCF
\* row is NOPAT + D&A - Capex - change in NWC (the three sheets carry their
\* amounts with a minus sign).
C21_FcfLinksToAmounts ==
    pc.at = "done" =>
        LET vals == CellValues(model)
        IN  \A col \in 2..7 :
                LET c == get_column_letter(col)
                    nopat == ValueIn(model, vals, "Unlevered_FCF", c, 6)
                    da == ValueIn(model, vals, "D&A", c, 5)
                    capex == ValueIn(model, vals, "Capex", c, 5)
                    nwc == ValueIn(model, vals, "Working_Capital", c, 5)
                IN  /\ CellRefs(model, "Unlevered_FCF", 7, col) = { <<"D&A", Addr(col, 5)>> }
                    /\ CellRefs(model, "Unlevered_FCF", 8, col) = { <<"Capex", Addr(col, 5)>> }
                    /\ CellRefs(model, "Unlevered_FCF", 9, col)
                           = { <<"Working_Capital", Addr(col, 5)>> }
                    /\ nopat.t = "n" /\ da.t = "n" /\ capex.t = "n" /\ nwc.t = "n"
                    /\ ValueIn(model, vals, "Unlevered_FCF", c, 10)
                           = VNum(QAdd(QAdd(QSub(nopat.v, da.v), capex.v), nwc.v))

\* the year-1 column of the built workbook: the three lines read row 3 of
\* their sheets, the year header "Year 1", while the D&A and capex amounts
\* are numbers in row 5; the Unlevered FCF cell is #VALUE!
C21_FcfLinksToYearHeader ==
    /\ pc.at = "done"
    /\ CellRefs(model, "Unlevered_FCF", 7, 3) = { <<"D&A", Addr(3, 3)>> }
    /\ CellRefs(model, "Unlevered_FCF", 8, 3) = { <<"Capex", Addr(3, 3)>> }
    /\ CellRefs(model, "Unlevered_FCF", 9, 3) = { <<"Working_Capital", Addr(3, 3)>> }
    /\ Value(model, "Capex", "C", 3) = VText("Year 1")
    /\ Value(model, "Unlevered_FCF", "C", 8) = VText("Year 1")
    /\ Value(model, "D&A", "C", 5).t = "n"
    /\ Value(model, "Capex", "C", 5).t = "n"
    /\ Value(model, "Unlevered_FCF", "C", 6).t = "n"
    /\ Value(model, "Unlevered_FCF", "C", 10) = VErr("#VALUE!")

\* the Discount Period and Discount Factor rows of DCF_Valuation hold, for
\* year i, the period i - 0.5 or i and the factor of the projection
SheetPeriodsAndFactors(vals) ==
    \A i \in 1..5 :
        LET c == get_column_letter(i + 2)
            half2 == discount_period2(model.a.use_mid_year_convention, i)
        IN  /\ ValueIn(model, vals, "DCF_Valuation", c, 7) = VNum(Q(half2, 2))
            /\ ValueIn(model, vals, "DCF_Valuation", c, 8) = VNum(df(wacc(model.a), half2))

\* C22: on DCF_Valuation, for every forecast year 1..5, the PV of FCF cell
\* is that year's unlevered FCF cell (row 4) times the discount factor (row
\* 8) of period i - 0.5 or i, it shows the projection's PV_FCF[i], and the
\* base year has no PV cell.
C22_PvOfFcf ==
    (pc.at = "done" /\ out.status = "ok") =>
        LET vals == CellValues(model)
        IN  /\ SheetPeriodsAndFactors(vals)
            /\ <<"DCF_Valuation", 9, 2>> \notin DOMAIN model.cells
            /\ \A i \in 1..5 :
                   /\ CellRefs(model, "DCF_Valuation", 9, i + 2)
                          = { <<"DCF_Valuation", Addr(i + 2, 4)>>,
                              <<"DCF_Valuation", Addr(i + 2, 8)>> }
                   /\ ValueIn(model, vals, "DCF_Valuation", get_column_letter(i + 2), 9)
                          = VNum(out.pv_fcf[i])

\* the year-5 column of a run the projection completes: period and factor
\* are the projection's, but the PV cell multiplies the factor by row 3, the
\* header "Year 5", and is #VALUE!
C22_PvReadsYearHeader ==
    /\ pc.at = "done" /\ out.status = "ok"
    /\ out.pv_fcf[5] # Zero
    /\ Value(model, "DCF_Valuation", "G", 8) = VNum(FactorOfYearFive(model.a))
    /\ CellRefs(model, "DCF_Valuation", 9, 7)
           = { <<"DCF_Valuation", Addr(7, 3)>>, <<"DCF_Valuation", Addr(7, 8)>> }
    /\ Value(model, "DCF_Valuation", "G", 3) = VText("Year 5")
    /\ Value(model, "DCF_Valuation", "G", 9) = VErr("#VALUE!")

\* the period and factor rows alone are the projection's in every run it
\* completes, and the base year is not discounted
C22_PeriodsAndFactors ==
    (pc.at = "done" /\ out.status = "ok") =>
        /\ SheetPeriodsAndFactors(CellValues(model))
        /\ <<"DCF_Valuation", 9, 2>> \notin DOMAIN model.cells

\* the text in column A of a row: what the row holds
LabelOf(b, ws, row) ==
    IF <<ws, row, 1>> \in DOMAIN b.cells /\ b.cells[<<ws, row, 1>>].t = "text"
    THEN b.cells[<<ws, row, 1>>].s
    ELSE ""

\* the value cell (column B) of the row of sheet ws labelled `label`
ValueCellOf(b, ws, label) ==
    { << ws, A1("B", key[2]) >> :
        key \in { k \in DOMAIN b.cells : k[1] = ws /\ k[3] = 1 /\ LabelOf(b, ws, k[2]) = label } }

\* C23: on DCF_Valuation each method's enterprise value reads the cell
\* holding the sum of the five PV-of-FCF cells and the cell holding the
\* present value of that method's terminal value on Terminal_Value, and is
\* their sum.
C23_EnterpriseValueCells ==
    pc.at = "done" =>
        LET vals == CellValues(model)
            sum == ValueCellOf(model, "DCF_Valuation", "Sum of PV of FCFs")
            total == ValueIn(model, vals, "DCF_Valuation", "B", 12)
            pv_gordon == ValueIn(model, vals, "Terminal_Value", "B", 5)
            pv_exit == ValueIn(model, vals, "Terminal_Value", "B", 6)
        IN  /\ CellRefs(model, "DCF_Valuation", 12, 2)
                   = { <<"DCF_Valuation", Addr(col, 9)>> : col \in 3..7 }
            /\ CellRefs(model, "DCF_Valuation", 15, 2)
                   = sum \cup ValueCellOf(model, "Terminal_Value", "PV of TV (Gordon)")
            /\ CellRefs(model, "DCF_Valuation", 21, 2)
                   = sum \cup ValueCellOf(model, "Terminal_Value", "PV of TV (Exit Multiple)")
            /\ (total.t = "n" /\ pv_gordon.t = "n") =>
                   ValueIn(model, vals, "DCF_Valuation", "B", 15)
                       = VNum(QAdd(total.v, pv_gordon.v))
            /\ (total.t = "n" /\ pv_exit.t = "n") =>
                   ValueIn(model, vals, "DCF_Valuation", "B", 21)
                       = VNum(QAdd(total.v, pv_exit.v))

\* the built workbook: the sum of the PV-of-FCF cells is in B12, the two
\* enterprise values read the PV cells of their methods but add them to B13
\* and to B14, which hold nothing
C23_EnterpriseValueReadsEmptyCell ==
    /\ pc.at = "done"
    /\ ValueCellOf(model, "DCF_Valuation", "Sum of PV of FCFs") = { <<"DCF_Valuation", A1("B", 12)>> }
    /\ LabelOf(model, "DCF_Valuation", 15) = "Enterprise Value"
    /\ LabelOf(model, "DCF_Valuation", 21) = "Enterprise Value"
    /\ CellRefs(model, "DCF_Valuation", 15, 2)
           = { <<"DCF_Valuation", A1("B", 13)>> }
               \cup ValueCellOf(model, "Terminal_Value", "PV of TV (Gordon)")
    /\ CellRefs(model, "DCF_Valuation", 21, 2)
           = { <<"DCF_Valuation", A1("B", 14)>> }
               \cup ValueCellOf(model, "Terminal_Value", "PV of TV (Exit Multiple)")
    /\ <<"DCF_Valuation", 13, 2>> \notin DOMAIN model.cells
    /\ <<"DCF_Valuation", 14, 2>> \notin DOMAIN model.cells
    /\ Value(model, "Terminal_Value", "B", 5) = VNum(Zero)
    /\ Value(model, "DCF_Valuation", "B", 15) = VNum(Zero)

\* the cells of sheet ws itself that the formula in column B of `row` reads
OwnSheetRefs(b, ws, row) == { r \in CellRefs(b, ws, row, 2) : r[1] = ws }

\* C24: on Terminal_Value the PV of TV (Gordon) is computed from the cell
\* holding the Gordon terminal value and the PV of TV (Exit Multiple) from
\* the cell holding the exit-multiple terminal value, itself EBITDA of year 5
\* times the exit multiple; neither reads an empty cell or the other
\* method's terminal value.
C24_PvReadsOwnTerminalValue ==
    pc.at = "done" =>
        /\ OwnSheetRefs(model, "Terminal_Value", 5)
               = ValueCellOf(model, "Terminal_Value", "Terminal Value (Gordon Growth)")
        /\ OwnSheetRefs(model, "Terminal_Value", 6)
               = ValueCellOf(model, "Terminal_Value", "Terminal Value (Exit Multiple)")
        /\ CellRefs(model, "Terminal_Value", 4, 2)
               = { <<"EBITDA_Bridge", A1("G", 6)>>,
                   <<"Key_Assumptions", Ref(model, "exit_mult")>> }
        /\ LabelOf(model, "EBITDA_Bridge", 6) = "EBITDA"

\* the built workbook: the terminal values are in B3 and B4; the Gordon PV
\* reads B2, which holds nothing, and the exit-multiple PV reads B3, the
\* Gordon terminal value
C24_PvReadsRowAbove ==
    /\ pc.at = "done"
    /\ ValueCellOf(model, "Terminal_Value", "Terminal Value (Gordon Growth)")
           = { <<"Terminal_Value", A1("B", 3)>> }
    /\ ValueCellOf(model, "Terminal_Value", "Terminal Value (Exit Multiple)")
           = { <<"Terminal_Value", A1("B", 4)>> }
    /\ LabelOf(model, "Terminal_Value", 5) = "PV of TV (Gordon)"
    /\ LabelOf(model, "Terminal_Value", 6) = "PV of TV (Exit Multiple)"
    /\ OwnSheetRefs(model, "Terminal_Value", 5) = { <<"Terminal_Value", A1("B", 2)>> }
    /\ <<"Terminal_Value", 2, 2>> \notin DOMAIN model.cells
    /\ OwnSheetRefs(model, "Terminal_Value", 6) = { <<"Terminal_Value", A1("B", 3)>> }
    /\ Value(model, "Terminal_Value", "B", 4).t = "n"
    /\ Value(model, "Terminal_Value", "B", 5) = VNum(Zero)

\* the exit-multiple terminal value itself is year-5 EBITDA times the
\* multiple
C24_ExitTerminalValue ==
    pc.at = "done" =>
        /\ CellRefs(model, "Terminal_Value", 4, 2)
               = { <<"EBITDA_Bridge", A1("G", 6)>>,
                   <<"Key_Assumptions", Ref(model, "exit_mult")>> }
        /\ LabelOf(model, "EBITDA_Bridge", 6) = "EBITDA"

\* the decay factor and the ceiling of each forecast year, as the
\* specification lists them
DecayFactors == << Q(90, 100), Q(80, 100), Q(65, 100), Q(50, 100), Q(40, 100) >>
Ceilings == << Q(20, 100), Q(15, 100), Q(12, 100), Q(8, 100), Q(5, 100) >>

\* the default of revenue_growth_y{i} among the questions asked
GrowthDefault(i) ==
    LET id == << "revenue_growth_y1", "revenue_growth_y2", "revenue_growth_y3",
                 "revenue_growth_y4", "revenue_growth_y5" >>[i]
    IN  result.questions[CHOOSE k \in 1..Len(result.questions) :
                             result.questions[k].id = id].default_value

\* d is the historical average times the decay factor, capped at the ceiling
DampedAndCapped(d, avg, i) ==
    LET damped == QMul(avg, DecayFactors[i])
    IN  /\ QLe(d, damped) /\ QLe(d, Ceilings[i])
        /\ d = damped \/ d = Ceilings[i]

Asked == pc.at = "asked"

\* C25 (as stated): for every historical average growth rate the five
\* defaults are the average times the decay factor capped at the ceiling,
\* and default year 1 >= year 2 >= year 3 >= year 4 >= year 5.
C25_StatedDefaultsDecelerate ==
    Asked =>
        /\ \A i \in 1..5 : DampedAndCapped(GrowthDefault(i), calc_avg_growth(request.fin), i)
        /\ \A i \in 1..4 : QGe(GrowthDefault(i), GrowthDefault(i + 1))

\* C25 (amended): for every historical average growth rate the five defaults
\* are the average times the decay factor capped at the ceiling; when the
\* average is not negative they run year 1 >= ... >= year 5, and when it is
\* negative they run the other way, year 1 < ... < year 5 < 0.
C25_DefaultsDecelerate ==
    Asked =>
        LET avg == calc_avg_growth(request.fin)
        IN  /\ \A i \in 1..5 : DampedAndCapped(GrowthDefault(i), avg, i)
            /\ QGe(avg, Zero) => \A i \in 1..4 : QGe(GrowthDefault(i), GrowthDefault(i + 1))
            /\ QLt(avg, Zero) =>
                   /\ \A i \in 1..4 : QLt(GrowthDefault(i), GrowthDefault(i + 1))
                   /\ QLt(GrowthDefault(5), Zero)

\* revenue 100 then 120: the average is 20%, year 1 is damped to 18%, below
\* its ceiling, and years 2 to 5 are at their ceilings
C25_DampedThenCapped ==
    /\ Asked
    /\ request.fin.revenue = << QInt(100), QInt(120) >>
    /\ GrowthDefault(1) = Q(18, 100)
    /\ \A i \in 2..5 : GrowthDefault(i) = Ceilings[i]

\* a shrinking company: the defaults rise from year 1 to year 5
C25_ShrinkingCompany ==
    /\ Asked
    /\ QLt(calc_avg_growth(request.fin), Zero)
    /\ QLt(GrowthDefault(1), GrowthDefault(2))

\* the formula cells that read themselves, and those without a value because
\* they are on a reference cycle or depend on one
SelfReferringCells(b) ==
    { key \in DOMAIN b.cells :
        << key[1], Addr(key[3], key[2]) >> \in CellRefs(b, key[1], key[2], key[3]) }

CircularCells(b) ==
    LET vals == CellValues(b)
    IN  { key \in DOMAIN b.cells : vals[key] = VErr("circular") }

\* C26: the formulas of the workbook written by generate() have no cycle: no
\* cell reads itself, directly or through other cells; the revenue of year i
\* reads the revenue of year i - 1 and the growth of year i only, and the
\* change in NWC of year i does not read itself.
C26_FormulasAcyclic ==
    pc.at = "done" =>
        /\ SelfReferringCells(model) = { }
        /\ CircularCells(model) = { }
        /\ \A col \in 3..7 :
               CellRefs(model, "Revenue_Build", 5, col)
                   = { <<"Revenue_Build", Addr(col - 1, 5)>>, <<"Revenue_Build", Addr(col, 4)>> }

\* the built workbook: the change in NWC of year 1, Working_Capital!C5, is
\* -(C5-B5)*C4 and reads itself; it has no value; the five cells of that row are the
\* only ones that read themselves
C26_NwcReadsItself ==
    /\ pc.at = "done"
    /\ LabelOf(model, "Working_Capital", 5) = "Change in NWC"
    /\ CellRefs(model, "Working_Capital", 5, 3)
           = { <<"Working_Capital", A1("C", 5)>>, <<"Working_Capital", A1("B", 5)>>,
               <<"Working_Capital", A1("C", 4)>> }
    /\ SelfReferringCells(model) = { <<"Working_Capital", 5, col>> : col \in 3..7 }
    /\ Value(model, "Working_Capital", "C", 5) = VErr("circular")

\* the revenue row alone is a forward recurrence in every built workbook
C26_RevenueForward ==
    pc.at = "done" =>
        \A col \in 3..7 :
            /\ CellRefs(model, "Revenue_Build", 5, col)
                   = { <<"Revenue_Build", Addr(col - 1, 5)>>, <<"Revenue_Build", Addr(col, 4)>> }
            /\ <<"Revenue_Build", 5, col>> \notin CircularCells(model)

\* the value cells of the rows of Inputs_Index, one per listed input
IndexValueCells == { <<"Inputs_Index", 3 + i, 2>> : i \in 1..Len(IndexInputs) }

\* C27: in the build order of generate() every name is registered before it
\* is looked up: at every point of the build no formula written so far has a
\* blank reference, and no row of Inputs_Index holds the placeholder dash but
\* the link to its input.
C27_LookupsAfterRegistration ==
    /\ BlankFormulaCells = {}
    /\ PlaceholderCells = {}
    /\ Built("Inputs_Index") =>
           \A i \in 1..Len(IndexInputs) :
               /\ Ref(model, IndexInputs[i][3]) # NoAddr
               /\ model.cells[<<"Inputs_Index", 3 + i, 2>>]
                      = Formula(ERef(IndexInputs[i][2], Ref(model, IndexInputs[i][3])))

\* the built workbook: Inputs_Index has its eleven links, and the growth of
\* year 5 on Revenue_Build reads the registered cell of growth_y5
C27_IndexLinksAll ==
    /\ pc.at = "done"
    /\ IndexValueCells \subseteq DOMAIN model.cells
    /\ \A key \in IndexValueCells : model.cells[key].t = "formula"
    /\ Ref(model, "growth_y5") # NoAddr
    /\ model.cells[<<"Revenue_Build", 4, 7>>]
           = Formula(ERef("Key_Assumptions", Ref(model, "growth_y5")))

\* the label of the row that holds each registered quantity on the sheet
\* that registers it last
QuantityLabel(name) ==
    CASE name = "base_revenue" -> "Base Year Revenue ($M)"
      [] name = "growth_y1" -> "Year 1 Growth"
      [] name = "growth_y2" -> "Year 2 Growth"
      [] name = "growth_y3" -> "Year 3 Growth"
      [] name = "growth_y4" -> "Year 4 Growth"
      [] name = "growth_y5" -> "Year 5 Growth"
      [] name = "ebitda_margin" -> "EBITDA Margin"
      [] name = "da_pct" -> "D&A (% of Revenue)"
      [] name = "capex_pct" -> "CapEx (% of Revenue)"
      [] name = "nwc_pct" -> "NWC (% of Revenue)"
      [] name = "tax_rate" -> "Tax Rate"
      [] name = "term_growth" -> "Perpetuity Growth Rate"
      [] name = "exit_mult" -> "Exit EV/EBITDA Multiple"
      [] name = "net_debt" -> "Net Debt ($M)"
      [] name = "shares" -> "Shares Outstanding (M)"
      [] name = "mid_year" -> "Use Mid-Year Convention"
      [] name = "wacc" -> "WACC"

\* the names the builders look up behind each sheet prefix
QualifiedNames(sheet) ==
    IF sheet = "WACC" THEN { "wacc" }
    ELSE { "base_revenue", "growth_y1", "growth_y2", "growth_y3", "growth_y4", "growth_y5",
           "ebitda_margin", "da_pct", "capex_pct", "nwc_pct", "tax_rate", "term_growth",
           "exit_mult", "net_debt", "shares", "mid_year" }

\* the references of the workbook's formulas into Key_Assumptions and WACC
\* from other sheets: the sheet-qualified named references
QualifiedRefs ==
    UNION { { r \in CellRefs(model, key[1], key[2], key[3]) :
                r[1] \in { "Key_Assumptions", "WACC" } /\ r[1] # key[1] } :
            key \in DOMAIN model.cells }

\* the reference reads column B of a row of its sheet that holds one of the
\* quantities looked up behind that sheet's name
PointsAtNamedQuantity(r) ==
    /\ r[2] # NoAddr
    /\ r[2][1] = "B"
    /\ \E name \in QualifiedNames(r[1]) : LabelOf(model, r[1], r[2][2]) = QuantityLabel(name)

\* C28: although the registry keeps an address only and the WACC sheet
\* registers again names that Key_Assumptions registered, in generate() every
\* sheet-qualified named reference written so far reads the cell that holds
\* a named quantity on the sheet of its prefix, and each link of Inputs_Index
\* reads the cell of its own quantity.
C28_QualifiedRefsPointAtQuantity ==
    /\ \A r \in QualifiedRefs : PointsAtNamedQuantity(r)
    /\ Built("Inputs_Index") =>
           \A i \in 1..Len(IndexInputs) :
               \A r \in CellRefs(model, "Inputs_Index", 3 + i, 2) :
                   /\ r[1] = IndexInputs[i][2]
                   /\ r[2] # NoAddr
                   /\ LabelOf(model, r[1], r[2][2]) = QuantityLabel(IndexInputs[i][3])

\* the built workbook: "wacc" was registered at Key_Assumptions!B34 and again
\* by the WACC sheet; the WACC link of Inputs_Index and the first check of
\* Charts_Checks read the WACC sheet's cell, labelled WACC
C28_WaccReadOnWaccSheet ==
    /\ pc.at = "done"
    /\ LabelOf(model, "Key_Assumptions", 34) = "WACC"
    /\ Ref(model, "wacc") # A1("B", 34)
    /\ Ref(model, "rf_rate") # NoAddr
    /\ LabelOf(model, "WACC", Ref(model, "wacc")[2]) = "WACC"
    /\ CellRefs(model, "Inputs_Index", 10, 2) = { <<"WACC", Ref(model, "wacc")>> }
    /\ <<"WACC", Ref(model, "wacc")>> \in CellRefs(model, "Charts_Checks", 5, 2)
    /\ <<"WACC", Ref(model, "wacc")>> \in QualifiedRefs

\* C29: in the CLI, a run whose fetch succeeded ends, with the workbook
\* saved, by returning the output file path (exit status 0); a run returns
\* None (exit status 1) only when the fetch failed; no run ends in an
\* unhandled error after the file was written.
C29_CliReturnsPath ==
    (request.kind = "cli" /\ pc.at = "idle") =>
        IF request.financials = None
        THEN result = [ returned |-> "None", exit |-> 1 ]
        ELSE /\ saved # << >>
             /\ result.exit = 0
             /\ result.returned \notin { "None", "AttributeError" }

\* a CLI run for a listed company with data: the workbook is on disk and the
\* run has ended on the AttributeError of the summary, exit status 1
C29_ErrorAfterSave ==
    /\ request.kind = "cli"
    /\ request.financials # None
    /\ pc.at = "idle"
    /\ saved # << >>
    /\ result = [ returned |-> "AttributeError", exit |-> 1 ]

\* the failed-fetch half of C29 holds: None is returned exactly when the
\* fetch failed
C29_NoneOnlyOnFailedFetch ==
    (request.kind = "cli" /\ pc.at = "idle") =>
        (result = [ returned |-> "None", exit |-> 1 ] <=> request.financials = None)


\* ---- C30: the snapshot cache of the web API ----

ApiKinds == { "company", "generate" }

UpperCased == { "AAPL", "ZZZZ" }

\* a request of the web API has just been received
ApiRequestArrives == request'.seq # request.seq /\ request'.kind \in ApiKinds

\* C30: over any sequence of /api/company and /api/generate requests, an entry
\* is added to the cache only under the upper-cased ticker of the request and
\* only after its fetch returned a snapshot, an entry that exists is neither
\* replaced nor removed, the provider is not called for a ticker that is
\* already cached, and a failed fetch leaves the cache as it was.
C30_CacheOnlyGrowsByFetch ==
    [][ /\ \A k \in DOMAIN cache : k \in DOMAIN cache' /\ cache'[k] = cache[k]
        /\ \A k \in DOMAIN cache' \ DOMAIN cache :
             /\ ApiRequestArrives
             /\ k \in UpperCased
             /\ request'.ticker = k
             /\ request'.fetched
             /\ request'.financials # None
             /\ cache'[k] = request'.financials
        /\ (ApiRequestArrives /\ request'.ticker \in DOMAIN cache) =>
             (~request'.fetched /\ request'.financials = cache[request'.ticker])
        /\ (ApiRequestArrives /\ request'.fetched /\ request'.financials = None) =>
             cache' = cache
      ]_vars

\* C30: a second request for a ticker, spelled in lower case, is served from
\* the entry the first request stored.
C30_ServedFromCache ==
    /\ request.seq = 2
    /\ request.kind \in ApiKinds
    /\ request.ticker = "AAPL"
    /\ ~request.fetched
    /\ DOMAIN cache = { "AAPL" }
    /\ request.financials = cache["AAPL"]

\* C30: after a fetch that failed the cache is empty.
C30_FailedFetchLeavesCacheEmpty ==
    (request.kind \in ApiKinds /\ request.seq = 1 /\ request.financials = None) =>
        cache = << >>

=============================================================================
